---- MODULE Spec2Model ----
(***************************************************************************)
(* A model of the agent-team coordination kernel of openclaw-teams:        *)
(*   - the task-list engine            (src/src/teams/task-list.ts)        *)
(*   - the tier spawn predicate        (agent-scope: canSpawnTier)         *)
(*   - the sessions_spawn tool handler (sessions-spawn-tool.ts)            *)
(* Each subsystem has its own specification over the shared variables;     *)
(* the variables a specification does not use stay at their initial value. *)
(***************************************************************************)
EXTENDS Integers, Sequences, FiniteSets, TLC

(* ----------------------------------------------------------------------- *)
(* Bounds of the model                                                     *)
(* ----------------------------------------------------------------------- *)

\* the largest number of tasks a list holds in the sequential specification
MaxTasks == 3

\* an id that no task of a bounded list ever carries (ids are 1..MaxTasks)
MissingId == MaxTasks + 1

\* roles that claim tasks
Roles == {"dev", "qa"}

\* the role that claims in the sequential specification
SeqRoles == {"dev"}

\* "field not set" (undefined in the source)
Unset == "unset"

\* loadTaskList's null: no task-list.json in the team directory
NoList == [status |-> "absent", tasks |-> <<>>]

Terminal == {"completed", "failed"}

Range(seq) == {seq[i] : i \in 1..Len(seq)}

\* the two callers whose task operations interleave
Procs == {1, 2}

VARIABLES
    taskList,   \* the persisted task-list.json document of one team directory
    failedOnce, \* history: the ids of the tasks failTask has succeeded on
    created,    \* history: the ids successful createTask calls returned, in order
    pc,         \* per concurrent caller: idle, loaded, resave, done
    call,       \* per concurrent caller: the operation it is executing
    mem,        \* per concurrent caller: its in-memory copy of the document
    outcome,    \* per concurrent caller: "ok" (returned), "threw" or "none"
    base,       \* the document on disk when the current pair of calls began
    round,      \* how many pairs of concurrent calls have begun and settled
    chain,      \* the tiers along a chain of spawns, root first
    tierCall,   \* the last canSpawnTier call: its arguments and its result
    cfgTier,    \* configuration: the tier of each agent (or Unset)
    allowAgents,\* configuration: the requester's subagents.allowAgents
    dirs,       \* the hierarchy directories that exist under workspace/agents
    spawnReq,   \* the last sessions_spawn request
    spawnRes,   \* the result sessions_spawn returned for it
    spawnCalls, \* the gateway calls that execution issued, in order
    spawnRegistered, \* whether that execution registered a sub-agent run
    cfgList,    \* the agents.list of the configuration object being edited
    cfgResult,  \* what validateConfigObject returned for it, if it was called
    accessCall, \* the last call of a memory access function and its result
    memFiles,   \* the memory files of one project and of one of its teams
    memTool,    \* the last team_memory_* tool call, its caller and its result
    gateExit,   \* the exit code of the quality-gate hook run on that call
    mailbox,    \* the message files of one team's mailbox, in creation order
    clock,      \* the time of the last message written
    lastRead,   \* the team_message_read call in progress and what it returned
    readLog,    \* history: role, id and markAsRead of what earlier reads returned
    polled,     \* history: per broadcast, the roles that have read since it was sent
    reads,      \* history: how many team_message_read calls have been made
    listed,     \* the team_message_list call in progress and what it returned
    fsDirs,     \* the directories that exist under the workspace directory
    fsFiles,    \* the files that exist under it: path to content (lines)
    templateDir,\* the built-in reference templates: file name to content
    scaffoldCall, \* the ensureManagerHierarchyStructure call in progress
    loaded      \* the loadTierBootstrapFiles call in progress and its result

taskVars == <<taskList, failedOnce, created>>
raceVars == <<pc, call, mem, outcome, base, round>>
tierVars == <<chain, tierCall>>
spawnVars == <<cfgTier, allowAgents, dirs, spawnReq, spawnRes, spawnCalls, spawnRegistered>>
configVars == <<cfgList, cfgResult>>
accessVars == <<accessCall>>
memoryVars == <<memFiles, memTool, gateExit>>
mailVars == <<mailbox, clock, lastRead, readLog, polled, reads, listed>>
bootVars == <<fsDirs, fsFiles, templateDir, scaffoldCall, loaded>>
vars == <<taskVars, raceVars, tierVars, spawnVars, configVars, accessVars, memoryVars,
          mailVars, bootVars>>

\* what each specification leaves alone
beyondTasks == <<raceVars, tierVars, spawnVars, configVars, accessVars, memoryVars, mailVars,
    bootVars>>
beyondRace == <<failedOnce, created, tierVars, spawnVars, configVars, accessVars, memoryVars, mailVars,
    bootVars>>
beyondTier == <<taskVars, raceVars, spawnVars, configVars, accessVars, memoryVars, mailVars,
    bootVars>>
beyondSpawn == <<taskVars, raceVars, tierVars, configVars, accessVars, memoryVars, mailVars,
    bootVars>>
beyondConfig == <<taskVars, raceVars, tierVars, spawnVars, accessVars, memoryVars, mailVars,
    bootVars>>
beyondAccess == <<taskVars, raceVars, tierVars, spawnVars, configVars, memoryVars, mailVars,
    bootVars>>
beyondMail == <<taskVars, raceVars, tierVars, spawnVars, configVars, accessVars,
                memoryVars, bootVars>>
beyondBoot == <<taskVars, raceVars, tierVars, spawnVars, configVars, accessVars,
                memoryVars, mailVars>>
beyondMemory == <<taskVars, raceVars, tierVars, spawnVars, configVars, accessVars, mailVars,
    bootVars>>

(* ----------------------------------------------------------------------- *)
(* Task-list engine: pure forms of the operations                          *)
(* ----------------------------------------------------------------------- *)

\* Array.prototype.find((t) => t.id === id): index of the first match, 0 if none
FindIndex(tasks, id) ==
    IF \E i \in 1..Len(tasks) : tasks[i].id = id
    THEN CHOOSE i \in 1..Len(tasks) :
            /\ tasks[i].id = id
            /\ \A j \in 1..(i - 1) : tasks[j].id # id
    ELSE 0

\* mutant of findUnmetDependencies: a failed dependency counts as met
findUnmetDependencies_FailedMet(tl, task) ==
    {d \in task.dependsOn :
        /\ \E i \in 1..Len(tl.tasks) : tl.tasks[i].id = d
        /\ \E i \in 1..Len(tl.tasks) :
                tl.tasks[i].id = d /\ tl.tasks[i].status \notin {"completed", "failed"}}

\* the dependencies of task that are found in the list and are not completed
\* (a dependency id that matches no task maps to undefined and is filtered out)
findUnmetDependencies(tl, task) ==
    {d \in task.dependsOn :
        /\ FindIndex(tl.tasks, d) # 0
        /\ tl.tasks[FindIndex(tl.tasks, d)].status # "completed"}

\* results of an operation: ok (returned) or not (threw), the document the
\* operation leaves on disk, and completeTask's newlyClaimable (ids, list order)
Threw(tl, why) == [ok |-> FALSE, err |-> why, doc |-> tl, newly |-> <<>>]
Returned(tl, newly) == [ok |-> TRUE, err |-> "", doc |-> tl, newly |-> newly]

\* a throw whose message quotes the status the task has
ThrewStatus(tl, why, status) == Threw(tl, why \o ":" \o status)

\* mutant of MaxIdOf: Math.min for Math.max, which never leaves 0
MaxIdOf_Min(tasks) == 0

\* reduce((max, t) => Math.max(max, t.id), 0)
MaxIdOf(tasks) ==
    IF Len(tasks) = 0 THEN 0
    ELSE CHOOSE m \in {tasks[i].id : i \in 1..Len(tasks)} :
            \A i \in 1..Len(tasks) : tasks[i].id <= m

NewTask(tl, deps, assignee) ==
    [id |-> MaxIdOf(tl.tasks) + 1,
     status |-> "pending",
     assignedTo |-> assignee,
     dependsOn |-> deps,
     completedAt |-> FALSE,
     failedReason |-> FALSE]

createTask(tl, deps, assignee) ==
    IF tl = NoList THEN Threw(tl, "no-list")
    ELSE Returned([tl EXCEPT !.tasks = Append(@, NewTask(tl, deps, assignee))], <<>>)

claimTask(tl, taskId, agentRole) ==
    LET i == FindIndex(tl.tasks, taskId) IN
    IF tl = NoList THEN Threw(tl, "no-list")
    ELSE IF i = 0 THEN Threw(tl, "not-found")
    ELSE IF tl.tasks[i].status # "pending" THEN ThrewStatus(tl, "not-pending", tl.tasks[i].status)
    ELSE IF findUnmetDependencies(tl, tl.tasks[i]) # {} THEN Threw(tl, "unmet-deps")
    ELSE Returned([tl EXCEPT !.tasks[i].status = "claimed",
                             !.tasks[i].assignedTo = agentRole], <<>>)

\* mutant of startTask: a pending task is started too
startTask_FromPending(tl, taskId) ==
    LET i == FindIndex(tl.tasks, taskId) IN
    IF tl = NoList THEN Threw(tl, "no-list")
    ELSE IF i = 0 THEN Threw(tl, "not-found")
    ELSE IF tl.tasks[i].status \notin {"pending", "claimed"}
         THEN ThrewStatus(tl, "not-claimed", tl.tasks[i].status)
    ELSE Returned([tl EXCEPT !.tasks[i].status = "in_progress"], <<>>)

startTask(tl, taskId) ==
    LET i == FindIndex(tl.tasks, taskId) IN
    IF tl = NoList THEN Threw(tl, "no-list")
    ELSE IF i = 0 THEN Threw(tl, "not-found")
    ELSE IF tl.tasks[i].status # "claimed"
         THEN ThrewStatus(tl, "not-claimed", tl.tasks[i].status)
    ELSE Returned([tl EXCEPT !.tasks[i].status = "in_progress"], <<>>)

\* tasks.every((t) => t.status === "completed" || t.status === "failed")
AllDone(tl) ==
    \A i \in 1..Len(tl.tasks) : tl.tasks[i].status \in {"completed", "failed"}

\* the filter of listClaimableTasks: pending and no unmet dependency
IsClaimable(tl, t) ==
    /\ t.status = "pending"
    /\ findUnmetDependencies(tl, t) = {}

\* ids of a sequence of tasks, in order
IdsOf(tasks) == [i \in 1..Len(tasks) |-> tasks[i].id]

listClaimableTasks(tl) ==
    IF tl = NoList THEN <<>>
    ELSE IdsOf(SelectSeq(tl.tasks, LAMBDA t : IsClaimable(tl, t)))

\* the document after completeTask's first save: the task completed
CompletedDoc(tl, i) ==
    [tl EXCEPT !.tasks[i].status = "completed", !.tasks[i].completedAt = TRUE]

\* mutant of NewlyClaimable: the dependsOn.includes(taskId) test is dropped
NewlyClaimable_AnyPending(tl, taskId) ==
    IdsOf(SelectSeq(tl.tasks, LAMBDA t :
            /\ t.status = "pending"
            /\ \A d \in t.dependsOn :
                  \A i \in 1..Len(tl.tasks) :
                      tl.tasks[i].id = d => tl.tasks[i].status = "completed"))

\* completeTask's newlyClaimable filter, evaluated on the mutated document
NewlyClaimable(tl, taskId) ==
    IdsOf(SelectSeq(tl.tasks, LAMBDA t :
            /\ t.status = "pending"
            /\ taskId \in t.dependsOn
            /\ findUnmetDependencies(tl, t) = {}))

\* mutant of MarkListDone: the list status is left as it is
MarkListDone_Never(tl) == tl

\* mutant of MarkListDone: the list status is recomputed both ways
MarkListDone_Recompute(tl) ==
    [tl EXCEPT !.status = IF AllDone(tl) THEN "completed" ELSE "active"]

\* the document after completeTask's all-done check
MarkListDone(tl) == IF AllDone(tl) THEN [tl EXCEPT !.status = "completed"] ELSE tl

completeTask(tl, taskId) ==
    LET i == FindIndex(tl.tasks, taskId) IN
    IF tl = NoList THEN Threw(tl, "no-list")
    ELSE IF i = 0 THEN Threw(tl, "not-found")
    ELSE IF tl.tasks[i].status \notin {"in_progress", "claimed"}
         THEN ThrewStatus(tl, "not-completable", tl.tasks[i].status)
    ELSE Returned(MarkListDone(CompletedDoc(tl, i)),
                  NewlyClaimable(CompletedDoc(tl, i), taskId))

failTask(tl, taskId) ==
    LET i == FindIndex(tl.tasks, taskId) IN
    IF tl = NoList THEN Threw(tl, "no-list")
    ELSE IF i = 0 THEN Threw(tl, "not-found")
    ELSE Returned([tl EXCEPT !.tasks[i].status = "failed",
                             !.tasks[i].failedReason = TRUE], <<>>)

\* mutant of updateTask: the list status follows the update, as it does in
\* completeTask
updateTask_MarksDone(tl, taskId, updates) ==
    LET i == FindIndex(tl.tasks, taskId) IN
    IF tl = NoList THEN Threw(tl, "no-list")
    ELSE IF i = 0 THEN Threw(tl, "not-found")
    ELSE Returned(
            MarkListDone(
                [tl EXCEPT
                    !.tasks[i].status =
                        IF updates.status # Unset THEN updates.status ELSE @,
                    !.tasks[i].assignedTo =
                        IF updates.assignedTo # Unset THEN updates.assignedTo ELSE @]),
            <<>>)

\* updateTask: each field named in updates is written, no status guard
updateTask(tl, taskId, updates) ==
    LET i == FindIndex(tl.tasks, taskId) IN
    IF tl = NoList THEN Threw(tl, "no-list")
    ELSE IF i = 0 THEN Threw(tl, "not-found")
    ELSE Returned(
            [tl EXCEPT
                !.tasks[i].status =
                    IF updates.status # Unset THEN updates.status ELSE @,
                !.tasks[i].assignedTo =
                    IF updates.assignedTo # Unset THEN updates.assignedTo ELSE @],
            <<>>)

(* ----------------------------------------------------------------------- *)
(* Inputs of the task operations                                           *)
(* ----------------------------------------------------------------------- *)

\* task ids a caller passes: the ids a bounded list can hold, and a missing one
TaskIds == 1..MissingId

\* dependsOn arrays a caller passes for the task that will get id n: none, an
\* earlier task, the two first tasks, the task itself, a later task, a missing id
DepChoices(n) == {{}, {1}, {1, 2}, {n}, {MissingId}}

\* the most tasks a list holds in the concurrent specification
MaxRaceTasks == 2

\* the most pairs of concurrent calls that run one after the other
MaxRounds == 3

RaceIds == 1..MaxRaceTasks

NoUpdate == [status |-> Unset, assignedTo |-> Unset]

\* the partial updates a caller of updateTask passes
UpdateChoices ==
    {[status |-> "pending", assignedTo |-> Unset],
     [status |-> "completed", assignedTo |-> Unset],
     [status |-> Unset, assignedTo |-> "qa"]}

NoCall == [op |-> "none", id |-> 0, role |-> Unset, deps |-> {}, upd |-> NoUpdate]

\* the calls two concurrent callers make
RaceCalls ==
    {[NoCall EXCEPT !.op = "create", !.deps = d] : d \in {{}, {1}}}
    \cup {[NoCall EXCEPT !.op = "claim", !.id = i, !.role = r] :
              i \in RaceIds, r \in Roles}
    \cup {[NoCall EXCEPT !.op = o, !.id = i] :
              o \in {"start", "complete", "fail"}, i \in RaceIds}
    \cup {[NoCall EXCEPT !.op = "update", !.id = i, !.upd = u] :
              i \in RaceIds, u \in UpdateChoices}

(* ----------------------------------------------------------------------- *)
(* Hierarchy model: tiers and the spawn-permission predicate               *)
(* ----------------------------------------------------------------------- *)

TIER_ORDER == <<"general-manager", "operations", "manager", "team-lead", "teammate">>

\* the five tiers
SetTiers == {TIER_ORDER[i] : i \in 1..Len(TIER_ORDER)}

\* what a tier argument can be at run time: a tier, undefined, or a string
\* that is no tier
TierInputs == SetTiers \cup {Unset, "intern"}

\* Array.prototype.indexOf: the 0-based index of x, -1 if absent
IndexOf(seq, x) ==
    IF \E i \in 1..Len(seq) : seq[i] = x
    THEN (CHOOSE i \in 1..Len(seq) : seq[i] = x /\ \A j \in 1..(i - 1) : seq[j] # x) - 1
    ELSE -1

\* mutant of canSpawnTier: any tier may spawn every tier ranked below it
canSpawnTier_AnyLower(requesterTier, targetTier) ==
    IF requesterTier = Unset \/ targetTier = Unset THEN TRUE
    ELSE IF IndexOf(TIER_ORDER, requesterTier) < 0 \/ IndexOf(TIER_ORDER, targetTier) < 0
         THEN TRUE
    ELSE IndexOf(TIER_ORDER, requesterTier) < IndexOf(TIER_ORDER, targetTier)

\* mutant of canSpawnTier: a manager may also spawn a manager
canSpawnTier_Peer(requesterTier, targetTier) ==
    IF requesterTier = Unset \/ targetTier = Unset THEN TRUE
    ELSE IF IndexOf(TIER_ORDER, requesterTier) < 0 \/ IndexOf(TIER_ORDER, targetTier) < 0
         THEN TRUE
    ELSE IF requesterTier = "operations" THEN FALSE
    ELSE IF requesterTier = "teammate" THEN FALSE
    ELSE IF requesterTier = "general-manager"
         THEN targetTier = "operations" \/ targetTier = "manager"
    ELSE IF requesterTier = "manager" THEN targetTier = "team-lead" \/ targetTier = "manager"
    ELSE IF requesterTier = "team-lead" THEN targetTier = "teammate"
    ELSE FALSE

canSpawnTier(requesterTier, targetTier) ==
    IF requesterTier = Unset \/ targetTier = Unset THEN TRUE
    ELSE IF IndexOf(TIER_ORDER, requesterTier) < 0 \/ IndexOf(TIER_ORDER, targetTier) < 0
         THEN TRUE
    ELSE IF requesterTier = "operations" THEN FALSE
    ELSE IF requesterTier = "teammate" THEN FALSE
    ELSE IF requesterTier = "general-manager"
         THEN targetTier = "operations" \/ targetTier = "manager"
    ELSE IF requesterTier = "manager" THEN targetTier = "team-lead"
    ELSE IF requesterTier = "team-lead" THEN targetTier = "teammate"
    ELSE FALSE

\* the longest chain of spawns the tier specification follows
MaxChain == 5

NoTierCall == [requester |-> Unset, target |-> Unset, allowed |-> FALSE, made |-> FALSE]

TierIdle ==
    /\ chain = <<>>
    /\ tierCall = NoTierCall

\* canSpawnTier is called with any two arguments
CallCanSpawnTier ==
    \E a \in TierInputs, b \in TierInputs :
        /\ tierCall' = [requester |-> a, target |-> b,
                        allowed |-> canSpawnTier(a, b), made |-> TRUE]
        /\ UNCHANGED <<chain, beyondTier>>

\* an agent of tier a is the root of a chain of spawns
StartChain ==
    \E a \in SetTiers :
        /\ chain' = <<a>>
        /\ UNCHANGED <<tierCall, beyondTier>>

\* the last agent of the chain spawns an agent of tier b, if its tier may
SpawnChild ==
    \E b \in SetTiers :
        /\ Len(chain) >= 1
        /\ Len(chain) < MaxChain
        /\ canSpawnTier(chain[Len(chain)], b)
        /\ chain' = Append(chain, b)
        /\ tierCall' = [requester |-> chain[Len(chain)], target |-> b,
                        allowed |-> TRUE, made |-> TRUE]
        /\ UNCHANGED beyondTier

(* ----------------------------------------------------------------------- *)
(* Containment resolver and the sessions_spawn handler                     *)
(* ----------------------------------------------------------------------- *)

\* the agent that calls sessions_spawn, and another configured agent
Requester == "boss"
Agents == {"boss", "worker"}

\* a hierarchy directory is the tuple of its names: <<M>> is agents/M,
\* <<M, L>> is agents/M/teamleads/L, <<M, L, R>> is .../teammates/R
DirChoices ==
    {{},
     {<<"m1">>, <<"m1", "x">>},
     {<<"m1">>, <<"m1", "x">>, <<"m1", "x", "x">>}}

\* fs.statSync(target).isDirectory(), false when the path does not exist
hierarchyPathExists(fs, managerId, leadRole, mateRole) ==
    IF mateRole # Unset /\ leadRole = Unset THEN FALSE
    ELSE (<<managerId>>
            \o (IF leadRole # Unset THEN <<leadRole>> ELSE <<>>)
            \o (IF mateRole # Unset THEN <<mateRole>> ELSE <<>>)) \in fs

\* the request parameters the handler reads (task is required by the schema
\* and present), the kind of session the requester runs in
SpawnRequests ==
    [session : {"main", "subagent"},
     agentId : {Unset, "worker"},
     teamTier : {Unset, "manager", "team-lead", "teammate"},
     teamRole : {Unset, "x"},
     teamManagerId : {Unset, "m1"},
     teamLeadRole : {Unset, "x"},
     requesterTeamTier : {Unset, "manager", "team-lead", "teammate"}]

\* how the gateway and the thinking-level lookup answer during one execution
GatewayAnswers ==
    [model : {"none", "ok", "recoverable", "fatal"},
     thinking : {"none", "invalid", "ok", "fatal"},
     agent : {"ok", "fatal"}]

Result(status, error) == [status |-> status, error |-> error]

\* the sub-agent session gate: only an effective tier of manager or team-lead
\* may spawn from a sub-agent session
SubagentGateForbids(req) ==
    LET effectiveTier == IF req.requesterTeamTier # Unset
                         THEN req.requesterTeamTier ELSE req.teamTier
    IN  /\ req.session = "subagent"
        /\ effectiveTier = Unset \/ effectiveTier \notin {"manager", "team-lead"}

targetAgentId(req) == IF req.agentId # Unset THEN req.agentId ELSE Requester

\* the allow-list gate for a target agent other than the requester
AllowListForbids(req, allow) ==
    /\ targetAgentId(req) # Requester
    /\ "*" \notin allow
    /\ targetAgentId(req) \notin allow

\* mutant of HierarchyForbids: canSpawnTier's arguments are swapped
HierarchyForbids_Swapped(requesterTier, targetTier) ==
    /\ requesterTier # Unset
    /\ targetTier # Unset
    /\ ~canSpawnTier(targetTier, requesterTier)

\* the hierarchy gate on the configured tiers of requester and target
HierarchyForbids(requesterTier, targetTier) ==
    /\ requesterTier # Unset
    /\ targetTier # Unset
    /\ ~canSpawnTier(requesterTier, targetTier)

\* the containment gate on the caller-supplied team parameters
ContainmentForbids(req, fs) ==
    /\ req.teamManagerId # Unset
    /\ req.teamTier # Unset
    /\ IF req.teamTier = "team-lead" /\ req.teamRole # Unset
       THEN ~hierarchyPathExists(fs, req.teamManagerId, req.teamRole, Unset)
       ELSE IF req.teamTier = "teammate" /\ req.teamLeadRole # Unset /\ req.teamRole # Unset
       THEN ~hierarchyPathExists(fs, req.teamManagerId, req.teamLeadRole, req.teamRole)
       ELSE FALSE

\* the gateway calls made for the model and the thinking level, in order
PatchCalls(gw) ==
    (IF gw.model # "none" THEN <<"sessions.patch:model">> ELSE <<>>)
    \o (IF gw.model # "fatal" /\ gw.thinking \in {"ok", "fatal"}
        THEN <<"sessions.patch:thinking">> ELSE <<>>)

\* one execution of the handler: the result, the gateway calls issued and
\* whether a sub-agent run was registered
execute(req, gw, tiers, allow, fs) ==
    IF SubagentGateForbids(req)
    THEN [res |-> Result("forbidden", "subagent-session"), calls |-> <<>>, reg |-> FALSE]
    ELSE IF AllowListForbids(req, allow)
    THEN [res |-> Result("forbidden", "agent-not-allowed"), calls |-> <<>>, reg |-> FALSE]
    ELSE IF HierarchyForbids(tiers[Requester], tiers[targetAgentId(req)])
    THEN [res |-> Result("forbidden", "hierarchy"), calls |-> <<>>, reg |-> FALSE]
    ELSE IF gw.thinking = "invalid"
    THEN [res |-> Result("error", "thinking-level"), calls |-> <<>>, reg |-> FALSE]
    ELSE IF gw.model = "fatal" \/ gw.thinking = "fatal"
    THEN [res |-> Result("error", "gateway"), calls |-> PatchCalls(gw), reg |-> FALSE]
    ELSE IF ContainmentForbids(req, fs)
    THEN [res |-> Result("forbidden", "containment"), calls |-> PatchCalls(gw), reg |-> FALSE]
    ELSE IF gw.agent = "fatal"
    THEN [res |-> Result("error", "gateway"),
          calls |-> PatchCalls(gw) \o <<"agent">>, reg |-> FALSE]
    ELSE [res |-> Result("accepted", ""),
          calls |-> PatchCalls(gw) \o <<"agent">>, reg |-> TRUE]

\* the answers an execution can meet: none is asked for when one of the first
\* three gates rejects the request
AnswersConsulted(req, tiers, allow) ==
    IF \/ SubagentGateForbids(req)
       \/ AllowListForbids(req, allow)
       \/ HierarchyForbids(tiers[Requester], tiers[targetAgentId(req)])
    THEN {[model |-> "none", thinking |-> "none", agent |-> "ok"]}
    ELSE GatewayAnswers

NoRequest ==
    [session |-> "main", agentId |-> Unset, teamTier |-> Unset, teamRole |-> Unset,
     teamManagerId |-> Unset, teamLeadRole |-> Unset, requesterTeamTier |-> Unset]

SpawnIdle ==
    /\ cfgTier = [a \in Agents |-> Unset]
    /\ allowAgents = {}
    /\ dirs = {}
    /\ spawnReq = NoRequest
    /\ spawnRes = Result("none", "")
    /\ spawnCalls = <<>>
    /\ spawnRegistered = FALSE

\* the sessions_spawn tool is called
SessionsSpawn ==
    /\ spawnRes.status = "none"
    /\ \E req \in SpawnRequests :
       \E gw \in AnswersConsulted(req, cfgTier, allowAgents) :
        LET out == execute(req, gw, cfgTier, allowAgents, dirs) IN
            /\ spawnReq' = req
            /\ spawnRes' = out.res
            /\ spawnCalls' = out.calls
            /\ spawnRegistered' = out.reg
            /\ UNCHANGED <<cfgTier, allowAgents, dirs, beyondSpawn>>

\* the caller has taken the result; the handler keeps nothing between calls
SpawnReturned ==
    /\ spawnRes.status # "none"
    /\ spawnReq' = NoRequest
    /\ spawnRes' = Result("none", "")
    /\ spawnCalls' = <<>>
    /\ spawnRegistered' = FALSE
    /\ UNCHANGED <<cfgTier, allowAgents, dirs, beyondSpawn>>

(* ----------------------------------------------------------------------- *)
(* Configuration validation: validateConfigObject and the team hierarchy   *)
(* checks over agents.list. Agent ids are taken in their normalized form   *)
(* and are distinct within one list.                                       *)
(* ----------------------------------------------------------------------- *)

\* how many agents a configuration lists at most
MaxAgents == 3

\* the ids agents.list gives its entries, in list order
AgentIdSeq == <<"a", "b", "c", "d">>

\* an id no entry of agents.list has
UnknownAgent == "ghost"

\* the children each parent tier allows; operations and teammate have no key
TIER_HIERARCHY ==
    [t \in {"general-manager", "manager", "team-lead"} |->
        CASE t = "general-manager" -> {"operations", "manager"}
          [] t = "manager" -> {"team-lead"}
          [] t = "team-lead" -> {"teammate"}]

\* the entries a configuration may hold at position n of agents.list
AgentEntries(n) ==
    [id : {AgentIdSeq[n]},
     reportsTo : {Unset, UnknownAgent} \cup {AgentIdSeq[i] : i \in 1..MaxAgents},
     tier : SetTiers \cup {Unset},
     unknownTemplate : BOOLEAN]

Issue(kind, agent) == [kind |-> kind, agent |-> agent]

\* the per-entry checks of validateTeamHierarchy: the issues of entry i
EntryIssues(agents, i) ==
    LET entry == agents[i]
        reportsTo == entry.reportsTo
        tier == entry.tier
        p == FindIndex(agents, reportsTo)
        parentTier == IF p # 0 THEN agents[p].tier ELSE Unset
    IN  (IF reportsTo # Unset /\ p = 0
         THEN {Issue("unknown-parent", entry.id)} ELSE {})
        \cup (IF reportsTo # Unset /\ reportsTo = entry.id
              THEN {Issue("self", entry.id)} ELSE {})
        \cup (IF /\ reportsTo # Unset
                 /\ tier # Unset
                 /\ parentTier # Unset
                 /\ parentTier \in DOMAIN TIER_HIERARCHY
                 /\ tier \notin TIER_HIERARCHY[parentTier]
              THEN {Issue("tier", entry.id)} ELSE {})
        \cup (IF entry.unknownTemplate
              THEN {Issue("template", entry.id)} ELSE {})

\* mutant of ChainRevisits: only an agent that is its own parent is caught
RECURSIVE ChainRevisits_SelfOnly(_, _, _)
ChainRevisits_SelfOnly(agents, current, visited) ==
    LET i == FindIndex(agents, current)
    IN  i # 0 /\ agents[i].reportsTo = current

\* the walk of the reportsTo pointers from current: TRUE when an agent is
\* visited twice, FALSE when the walk runs out of parents
RECURSIVE ChainRevisits(_, _, _)
ChainRevisits(agents, current, visited) ==
    IF current = Unset THEN FALSE
    ELSE IF current \in visited THEN TRUE
    ELSE LET i == FindIndex(agents, current)
             parent == IF i # 0 THEN agents[i].reportsTo ELSE Unset
         IN  ChainRevisits(agents, parent, visited \cup {current})

\* the issues of the team hierarchy, as kinds tagged with the agent concerned
validateTeamHierarchy(agents) ==
    IF Len(agents) = 0 THEN {}
    ELSE UNION {EntryIssues(agents, i) : i \in 1..Len(agents)}
         \cup {Issue("circular", agents[i].id) :
                  i \in {j \in 1..Len(agents) : ChainRevisits(agents, agents[j].id, {})}}

\* validateConfigObject: the legacy, schema, duplicate-directory and avatar
\* stages (earlierOk tells whether they all pass) run before the hierarchy
validateConfigObject(agents, earlierOk) ==
    IF ~earlierOk
    THEN [called |-> TRUE, ok |-> FALSE, issues |-> {Issue("earlier", Unset)}]
    ELSE LET teamIssues == validateTeamHierarchy(agents)
         IN  [called |-> TRUE, ok |-> teamIssues = {}, issues |-> teamIssues]

NotValidated == [called |-> FALSE, ok |-> FALSE, issues |-> {}]

ConfigIdle ==
    /\ cfgList = <<>>
    /\ cfgResult = NotValidated

\* the configuration file gains one more agent entry
AddAgentEntry ==
    /\ Len(cfgList) < MaxAgents
    /\ Len(cfgList) < Len(AgentIdSeq)
    /\ \E e \in AgentEntries(Len(cfgList) + 1) :
        /\ cfgList' = Append(cfgList, e)
        /\ cfgResult' = NotValidated
        /\ UNCHANGED beyondConfig

\* the configuration is loaded and validated
ValidateConfigObject ==
    /\ ~cfgResult.called
    /\ \E earlierOk \in BOOLEAN :
        /\ cfgResult' = validateConfigObject(cfgList, earlierOk)
        /\ UNCHANGED <<cfgList, beyondConfig>>

(* ----------------------------------------------------------------------- *)
(* Memory permissions: the access functions of memory-permissions.ts       *)
(* ----------------------------------------------------------------------- *)

\* the memory scopes of the matrix, and a scope that is none of them
MemoryTiers == {"company", "project-shared", "team"}
MemoryTierInputs == MemoryTiers \cup {"archive"}

\* the memory tiers of the team_memory_* tools, and one that is none of them
ToolMemoryTiers == {"workspace", "project", "team"}
ToolMemoryTierInputs == ToolMemoryTiers \cup {"archive"}

Operations == {"read", "write"}

resolveCompanyMemoryAccess(tier) ==
    CASE tier \in {"general-manager", "operations"} -> "write"
      [] tier = "manager" -> "read"
      [] OTHER -> "none"

resolveProjectSharedAccess(tier) ==
    CASE tier = "operations" -> "read"
      [] OTHER -> "write"

resolveTeamMemoryAccess(tier) ==
    CASE tier \in {"general-manager", "operations", "manager"} -> "read"
      [] tier \in {"team-lead", "teammate"} -> "write"
      [] OTHER -> "none"

resolveMemoryAccess(agentTier, memoryTier) ==
    IF agentTier = Unset THEN "read"
    ELSE CASE memoryTier = "company" -> resolveCompanyMemoryAccess(agentTier)
           [] memoryTier = "project-shared" -> resolveProjectSharedAccess(agentTier)
           [] memoryTier = "team" -> resolveTeamMemoryAccess(agentTier)
           [] OTHER -> "none"

canWriteCompanyMemory(tier) ==
    IF tier = Unset THEN FALSE
    ELSE tier = "general-manager" \/ tier = "operations"

\* mutant of canReadCompanyMemory: managers cannot read company memory
canReadCompanyMemory_AboveManagers(tier) ==
    IF tier = Unset THEN FALSE
    ELSE tier = "general-manager" \/ tier = "operations"

canReadCompanyMemory(tier) ==
    IF tier = Unset THEN FALSE
    ELSE tier = "general-manager" \/ tier = "operations" \/ tier = "manager"

canWriteProjectShared(tier) ==
    IF tier = Unset THEN TRUE
    ELSE tier # "operations"

\* mutant of canAccessTeamMemory: team membership is not looked at
canAccessTeamMemory_AnyTeam(agentTier, isOwnTeam) ==
    IF agentTier = Unset THEN "none"
    ELSE CASE agentTier \in {"general-manager", "operations", "manager"} -> "read"
           [] agentTier \in {"team-lead", "teammate"} -> "write"
           [] OTHER -> "none"

canAccessTeamMemory(agentTier, isOwnTeam) ==
    IF agentTier = Unset THEN "none"
    ELSE CASE agentTier \in {"general-manager", "operations", "manager"} -> "read"
           [] agentTier \in {"team-lead", "teammate"} ->
                 IF isOwnTeam THEN "write" ELSE "none"
           [] OTHER -> "none"

Verdict(allowed, reason) == [allowed |-> allowed, reason |-> reason]

\* isOwnTeam is optional and defaults to true: own is "own", "other" or Unset
validateMemoryAccess(agentTier, memoryTier, operation, own) ==
    IF agentTier = Unset
    THEN IF operation = "read" THEN Verdict(TRUE, "")
         ELSE Verdict(FALSE, "no-tier")
    ELSE CASE memoryTier = "workspace" ->
                 IF operation = "write"
                 THEN IF canWriteCompanyMemory(agentTier) THEN Verdict(TRUE, "")
                      ELSE Verdict(FALSE, "workspace-write")
                 ELSE IF canReadCompanyMemory(agentTier) THEN Verdict(TRUE, "")
                      ELSE Verdict(FALSE, "workspace-read")
           [] memoryTier = "project" ->
                 IF operation = "write"
                 THEN IF canWriteProjectShared(agentTier) THEN Verdict(TRUE, "")
                      ELSE Verdict(FALSE, "project-write")
                 ELSE Verdict(TRUE, "")
           [] memoryTier = "team" ->
                 LET access == canAccessTeamMemory(agentTier,
                                    IF own = Unset THEN TRUE ELSE own = "own")
                 IN  IF operation = "write"
                     THEN IF access = "write" THEN Verdict(TRUE, "")
                          ELSE Verdict(FALSE, "team-write")
                     ELSE IF access # "none" THEN Verdict(TRUE, "")
                          ELSE Verdict(FALSE, "team-read")
           [] OTHER -> Verdict(FALSE, "unknown-memory-tier")

\* one call of an access function: its name, its arguments (Unset where the
\* function has no such parameter; own is "own", "other" or Unset) and what
\* it returned: an access level, or a boolean for the can... predicates and
\* for validateMemoryAccess (its allowed field)
AccessCall(fn, tier, scope, op, own, level, allowed) ==
    [fn |-> fn, tier |-> tier, scope |-> scope, op |-> op, own |-> own,
     level |-> level, allowed |-> allowed]

NoAccessCall == AccessCall("none", Unset, Unset, Unset, Unset, Unset, FALSE)

OwnTeamInputs == {"own", "other"}

AccessIdle == accessCall = NoAccessCall

CallResolveMemoryAccess ==
    \E tier \in TierInputs, scope \in MemoryTierInputs :
        /\ accessCall' = AccessCall("resolveMemoryAccess", tier, scope, Unset, Unset,
                                    resolveMemoryAccess(tier, scope), FALSE)
        /\ UNCHANGED beyondAccess

CallCanWriteCompanyMemory ==
    \E tier \in TierInputs :
        /\ accessCall' = AccessCall("canWriteCompanyMemory", tier, "company", "write", Unset,
                                    Unset, canWriteCompanyMemory(tier))
        /\ UNCHANGED beyondAccess

CallCanReadCompanyMemory ==
    \E tier \in TierInputs :
        /\ accessCall' = AccessCall("canReadCompanyMemory", tier, "company", "read", Unset,
                                    Unset, canReadCompanyMemory(tier))
        /\ UNCHANGED beyondAccess

CallCanWriteProjectShared ==
    \E tier \in TierInputs :
        /\ accessCall' = AccessCall("canWriteProjectShared", tier, "project-shared", "write",
                                    Unset, Unset, canWriteProjectShared(tier))
        /\ UNCHANGED beyondAccess

CallCanAccessTeamMemory ==
    \E tier \in TierInputs, own \in OwnTeamInputs :
        /\ accessCall' = AccessCall("canAccessTeamMemory", tier, "team", Unset, own,
                                    canAccessTeamMemory(tier, own = "own"), FALSE)
        /\ UNCHANGED beyondAccess

CallValidateMemoryAccess ==
    \E tier \in TierInputs, scope \in ToolMemoryTierInputs, op \in Operations,
       own \in OwnTeamInputs \cup {Unset} :
        /\ accessCall' = AccessCall("validateMemoryAccess", tier, scope, op, own, Unset,
                                    validateMemoryAccess(tier, scope, op, own).allowed)
        /\ UNCHANGED beyondAccess

(* ----------------------------------------------------------------------- *)
(* The team_memory_write and team_memory_read tools, the memory files they *)
(* act on, and the quality-gate hook run on a team_memory_write call       *)
(* ----------------------------------------------------------------------- *)

\* how many entries a daily log holds at most
MaxLog == 2

\* what a caller writes
Contents == {"note"}

\* the team the tools are called for
TeamName == "t1"

\* one memory directory: whether the project or team directory it lives in
\* exists, the curated MEMORY.md ("" when missing) and today's daily log
NoMemory(exists) == [exists |-> exists, curated |-> "", daily |-> <<>>]

\* the caller (its tier, whether the team is its own) and the tool arguments;
\* agentTier is not in the tool schema but the hook looks for it in the
\* arguments
MemoryWriteRequests ==
    [callerTier : SetTiers \cup {Unset},
     own : OwnTeamInputs,
     memoryTier : ToolMemoryTiers,
     teamName : {Unset, TeamName},
     content : Contents,
     target : {Unset, "curated", "daily"},
     agentTier : {Unset, "given"}]

MemoryReadRequests ==
    [callerTier : SetTiers \cup {Unset},
     own : OwnTeamInputs,
     memoryTier : ToolMemoryTiers,
     teamName : {Unset, TeamName},
     content : {Unset},
     target : {Unset},
     agentTier : {Unset}]

ToolResult(status, content) == [status |-> status, content |-> content]

\* writeProjectMemory / writeTeamMemory and appendProjectDailyLog /
\* appendTeamDailyLog on one memory directory
WriteMemory(dir, target, content) ==
    IF target = "curated"
    THEN [dir EXCEPT !.curated = content]
    ELSE [dir EXCEPT !.daily = Append(@, content)]

\* team_memory_write: the files it leaves, its result, and whether it wrote
teamMemoryWrite(files, req) ==
    LET target == IF req.target = Unset THEN "daily" ELSE req.target
    IN  IF req.memoryTier = "workspace"
        THEN [files |-> files, res |-> ToolResult("info", ""), done |-> FALSE]
        ELSE IF req.memoryTier = "team"
        THEN IF req.teamName = Unset
             THEN [files |-> files, res |-> ToolResult("error", ""), done |-> FALSE]
             ELSE IF ~files.team.exists
             THEN [files |-> files, res |-> ToolResult("error", ""), done |-> FALSE]
             ELSE [files |-> [files EXCEPT !.team = WriteMemory(@, target, req.content)],
                   res |-> ToolResult("ok", ""), done |-> TRUE]
        ELSE IF ~files.project.exists
        THEN [files |-> files, res |-> ToolResult("error", ""), done |-> FALSE]
        ELSE [files |-> [files EXCEPT !.project = WriteMemory(@, target, req.content)],
              res |-> ToolResult("ok", ""), done |-> TRUE]

\* content || "(empty)"
OrEmpty(content) == IF content = "" THEN "(empty)" ELSE content

\* team_memory_read of MEMORY.md: its result, and whether it read the file
teamMemoryRead(files, req) ==
    IF req.memoryTier = "workspace"
    THEN [files |-> files, res |-> ToolResult("info", ""), done |-> FALSE]
    ELSE IF req.memoryTier = "team"
    THEN IF req.teamName = Unset
         THEN [files |-> files, res |-> ToolResult("error", ""), done |-> FALSE]
         ELSE [files |-> files, res |-> ToolResult("ok", OrEmpty(files.team.curated)),
               done |-> TRUE]
    ELSE [files |-> files, res |-> ToolResult("ok", OrEmpty(files.project.curated)),
          done |-> TRUE]

\* the hook's validateMemoryWrite on the arguments of a team_memory_write
\* call: exit code 0 lets the call through, 2 blocks it
validateMemoryWrite(req) ==
    LET agentTier == IF req.agentTier = Unset THEN Unset ELSE req.callerTier
    IN  IF req.memoryTier = "workspace" /\ agentTier # Unset
           /\ ~validateMemoryAccess(agentTier, "workspace", "write", Unset).allowed
        THEN 2
        ELSE IF req.memoryTier = "project" /\ agentTier # Unset
                /\ ~validateMemoryAccess(agentTier, "project", "write", Unset).allowed
        THEN 2
        ELSE IF req.memoryTier = "team" /\ req.teamName = Unset
        THEN 2
        ELSE 0

NoMemoryRequest ==
    [callerTier |-> Unset, own |-> "own", memoryTier |-> "workspace", teamName |-> Unset,
     content |-> Unset, target |-> Unset, agentTier |-> Unset]

NoMemoryTool ==
    [tool |-> "none", req |-> NoMemoryRequest, res |-> ToolResult("none", ""),
     done |-> FALSE]

\* the hook has not run
NoGate == -1

MemoryIdle ==
    /\ memFiles = [project |-> NoMemory(FALSE), team |-> NoMemory(FALSE)]
    /\ memTool = NoMemoryTool
    /\ gateExit = NoGate

\* an agent calls team_memory_write
TeamMemoryWrite ==
    /\ memTool.tool = "none"
    /\ \E req \in MemoryWriteRequests :
        LET out == teamMemoryWrite(memFiles, req) IN
            /\ Len(out.files.project.daily) <= MaxLog
            /\ Len(out.files.team.daily) <= MaxLog
            /\ memFiles' = out.files
            /\ memTool' = [tool |-> "write", req |-> req, res |-> out.res, done |-> out.done]
            /\ gateExit' = NoGate
            /\ UNCHANGED beyondMemory

\* the tool_result_persist hook runs on the team_memory_write call
QualityGateHook ==
    /\ memTool.tool = "write"
    /\ gateExit = NoGate
    /\ gateExit' = validateMemoryWrite(memTool.req)
    /\ UNCHANGED <<memFiles, memTool, beyondMemory>>

\* an agent calls team_memory_read
TeamMemoryRead ==
    /\ memTool.tool = "none"
    /\ \E req \in MemoryReadRequests :
        LET out == teamMemoryRead(memFiles, req) IN
            /\ memTool' = [tool |-> "read", req |-> req, res |-> out.res, done |-> out.done]
            /\ gateExit' = NoGate
            /\ UNCHANGED <<memFiles, beyondMemory>>

\* the caller has taken the result; the tools keep nothing between calls
MemoryToolReturned ==
    /\ memTool.tool # "none"
    /\ memTool' = NoMemoryTool
    /\ gateExit' = NoGate
    /\ UNCHANGED <<memFiles, beyondMemory>>

(* ----------------------------------------------------------------------- *)
(* Mailbox: sendMessage, broadcastMessage, readMessages, markRead and the  *)
(* team_message_read tool. Message ids are fresh; calls run one at a time. *)
(* ----------------------------------------------------------------------- *)

\* how many messages a mailbox holds at most
MaxMsgs == 2

\* how many team_message_read calls are made at most
MaxReads == 3

\* the roles of one team
TeamRoles == {"lead", "researcher", "dev"}

\* the message sendMessage or broadcastMessage writes: kind tells the
\* directory (messages or broadcasts), the id is its file name
NewMessage(box, kind, from, to, ts) ==
    [id |-> Len(box) + 1, kind |-> kind, from |-> from, to |-> to, ts |-> ts,
     read |-> FALSE]

sendMessage(box, from, to, ts) == Append(box, NewMessage(box, "direct", from, to, ts))

broadcastMessage(box, from, ts) == Append(box, NewMessage(box, "broadcast", from, "*", ts))

\* mutant of Selected: a broadcast is also shown to its sender
Selected_OwnBroadcast(msg, recipientRole) ==
    IF msg.kind = "direct"
    THEN (msg.to = recipientRole \/ msg.to = "*") /\ ~msg.read
    ELSE ~msg.read

\* the filters of readMessages on a direct message and on a broadcast
Selected(msg, recipientRole) ==
    IF msg.kind = "direct"
    THEN (msg.to = recipientRole \/ msg.to = "*") /\ ~msg.read
    ELSE msg.from # recipientRole /\ ~msg.read

\* the sequences without repetition over a set of message ids
Orders(ids) ==
    {q \in [1..Cardinality(ids) -> ids] : \A i, j \in DOMAIN q : i # j => q[i] # q[j]}

\* readMessages: the selected messages sorted by timestamp; the order of
\* messages of equal timestamp follows the directory listing, which is any
readMessages(box, recipientRole) ==
    LET ids == {i \in 1..Len(box) : Selected(box[i], recipientRole)}
    IN  {q \in Orders(ids) : \A i, j \in DOMAIN q : i < j => box[q[i]].ts <= box[q[j]].ts}

\* mutant of markRead: the message file is left as it is
markRead_Nothing(box, messageId) == box

\* markRead: the file named by the id is rewritten with read = true
markRead(box, messageId) ==
    [i \in 1..Len(box) |->
        IF box[i].id = messageId THEN [box[i] EXCEPT !.read = TRUE] ELSE box[i]]

RECURSIVE MarkAll(_, _)
MarkAll(box, ids) ==
    IF ids = <<>> THEN box ELSE MarkAll(markRead(box, Head(ids)), Tail(ids))

NoRead == [made |-> FALSE, role |-> Unset, mark |-> FALSE, ids |-> <<>>]

\* the limit listRecentMessages and team_message_list fall back on
DefaultLimit == 20

\* the largest limit team_message_list passes on
LimitCap == 100

\* the limit parameters a team_message_list call carries: none, or a number
\* its schema admits
LimitParams == {[given |-> FALSE, n |-> 0], [given |-> TRUE, n |-> 1], [given |-> TRUE, n |-> 2]}

\* team_message_list: the limit it hands to listRecentMessages
listLimit(param) ==
    IF ~param.given THEN DefaultLimit
    ELSE IF param.n < 1 THEN 1
    ELSE IF param.n > LimitCap THEN LimitCap ELSE param.n

\* mutant of listRecentMessages: the messages come oldest first
listRecentMessages_OldestFirst(box, limit) ==
    LET sorted == {q \in Orders(1..Len(box)) :
                      \A i, j \in DOMAIN q : i < j => box[q[i]].ts <= box[q[j]].ts}
    IN  {SubSeq(q, 1, IF Len(q) < limit THEN Len(q) ELSE limit) : q \in sorted}

\* listRecentMessages: the messages of both directories, whatever their read
\* flag, sorted by timestamp, newest first, and cut to the first limit; the
\* order of messages of equal timestamp follows the directory listings
listRecentMessages(box, limit) ==
    LET sorted == {q \in Orders(1..Len(box)) :
                      \A i, j \in DOMAIN q : i < j => box[q[i]].ts >= box[q[j]].ts}
    IN  {SubSeq(q, 1, IF Len(q) < limit THEN Len(q) ELSE limit) : q \in sorted}

NoListing == [made |-> FALSE, limit |-> 0, ids |-> <<>>]

MailIdle ==
    /\ mailbox = <<>>
    /\ clock = 0
    /\ lastRead = NoRead
    /\ readLog = {}
    /\ polled = <<>>
    /\ reads = 0
    /\ listed = NoListing

\* the times a new message can carry: that of the last message, or later
\* (the first message sets the time)
NextTimes == IF mailbox = <<>> THEN {clock + 1} ELSE {clock, clock + 1}

\* who sends the direct messages: readMessages never looks at the sender of
\* a direct message
DirectSenders == {"lead"}

SendMessage ==
    /\ ~lastRead.made
    /\ ~listed.made
    /\ Len(mailbox) < MaxMsgs
    /\ \E from \in DirectSenders, to \in TeamRoles \cup {"*"}, ts \in NextTimes :
        /\ mailbox' = sendMessage(mailbox, from, to, ts)
        /\ clock' = ts
        /\ polled' = Append(polled, {})
        /\ UNCHANGED <<lastRead, readLog, reads, listed, beyondMail>>

BroadcastMessage ==
    /\ ~lastRead.made
    /\ ~listed.made
    /\ Len(mailbox) < MaxMsgs
    /\ \E from \in TeamRoles, ts \in NextTimes :
        /\ mailbox' = broadcastMessage(mailbox, from, ts)
        /\ clock' = ts
        /\ polled' = Append(polled, {})
        /\ UNCHANGED <<lastRead, readLog, reads, listed, beyondMail>>

\* team_message_read: readMessages, then markRead on each returned message
\* unless markAsRead is false
TeamMessageRead ==
    /\ ~lastRead.made
    /\ ~listed.made
    /\ reads < MaxReads
    /\ reads' = reads + 1
    /\ \E role \in TeamRoles, markAsRead \in BOOLEAN :
       \E ids \in readMessages(mailbox, role) :
        /\ mailbox' = IF markAsRead THEN MarkAll(mailbox, ids) ELSE mailbox
        /\ lastRead' = [made |-> TRUE, role |-> role, mark |-> markAsRead, ids |-> ids]
        /\ UNCHANGED <<clock, readLog, polled, listed, beyondMail>>

\* the caller has taken the result of the read
MessageReadReturned ==
    /\ lastRead.made
    /\ lastRead' = NoRead
    /\ readLog' = readLog \cup {<<lastRead.role, lastRead.ids[i], lastRead.mark>> :
                                    i \in DOMAIN lastRead.ids}
    /\ polled' = [i \in DOMAIN polled |->
                    IF mailbox[i].kind = "broadcast"
                    THEN polled[i] \cup {lastRead.role} ELSE polled[i]]
    /\ UNCHANGED <<mailbox, clock, reads, listed, beyondMail>>

\* team_message_list: listRecentMessages with the limit the call asks for;
\* nothing is written
TeamMessageList ==
    /\ ~lastRead.made
    /\ ~listed.made
    /\ \E param \in LimitParams :
       \E ids \in listRecentMessages(mailbox, listLimit(param)) :
        /\ listed' = [made |-> TRUE, limit |-> listLimit(param), ids |-> ids]
        /\ UNCHANGED <<mailbox, clock, lastRead, readLog, polled, reads, beyondMail>>

\* the caller has taken the result of the read; the histories of earlier
\* reads are not kept
MessageReadTaken ==
    /\ lastRead.made
    /\ lastRead' = NoRead
    /\ UNCHANGED <<mailbox, clock, readLog, polled, reads, listed, beyondMail>>

\* the caller has taken the listing
MessageListReturned ==
    /\ listed.made
    /\ listed' = NoListing
    /\ UNCHANGED <<mailbox, clock, lastRead, readLog, polled, reads, beyondMail>>

(* ----------------------------------------------------------------------- *)
(* Bootstrap files: ensureManagerHierarchyStructure and                    *)
(* loadTierBootstrapFiles over the workspace directory. A directory is the *)
(* sequence of its path segments below the workspace directory, a file's   *)
(* content the sequence of its lines.                                      *)
(* ----------------------------------------------------------------------- *)

MANAGER_FILENAME == "MANAGER.md"
TEAM_LEAD_FILENAME == "TEAM-LEAD.md"
TEAMMATE_FILENAME == "TEAMMATE.md"

\* the tier-specific bootstrap file of a tier, if it has one
TIER_BOOTSTRAP_FILE(tier) ==
    CASE tier = "manager" -> MANAGER_FILENAME
      [] tier = "team-lead" -> TEAM_LEAD_FILENAME
      [] tier = "teammate" -> TEAMMATE_FILENAME
      [] OTHER -> Unset

\* the standard bootstrap files, in loading order (the file names are those
\* of the workspace module's DEFAULT_*_FILENAME constants)
TIER_BOOTSTRAP_ORDER ==
    <<"AGENTS.md", "SOUL.md", "TOOLS.md", "IDENTITY.md", "USER.md", "HEARTBEAT.md",
      "BOOTSTRAP.md", "MEMORY.md">>

ALL_BOOTSTRAP_FILENAMES == TIER_BOOTSTRAP_ORDER

\* the lines a file is made of: a front-matter fence, a blank line, text
FrontMatterFence == "---"
BlankLine == ""

\* the first line from index i on that starts a fence, or 0
RECURSIVE FenceFrom(_, _)
FenceFrom(content, i) ==
    IF i > Len(content) THEN 0
    ELSE IF content[i] = FrontMatterFence THEN i ELSE FenceFrom(content, i + 1)

\* the content without its leading blank lines
RECURSIVE TrimStart(_)
TrimStart(content) ==
    IF content # <<>> /\ Head(content) = BlankLine THEN TrimStart(Tail(content))
    ELSE content

\* stripFrontMatter: a content that opens with a fence and has a closing
\* fence loses everything up to it and the blank lines that follow
stripFrontMatter(content) ==
    IF content = <<>> \/ Head(content) # FrontMatterFence THEN content
    ELSE LET endIndex == FenceFrom(content, 2)
         IN  IF endIndex = 0 THEN content
             ELSE TrimStart(SubSeq(content, endIndex + 1, Len(content)))

\* "no such file": what a failed read gives (undefined in the source)
Undefined == [found |-> FALSE, text |-> <<>>]

\* readFileOrUndefined
readFileOrUndefined(files, filePath) ==
    IF filePath \in DOMAIN files THEN [found |-> TRUE, text |-> files[filePath]]
    ELSE Undefined

\* loadTemplateFile: the reference template of that name without its front
\* matter
loadTemplateFile(tmpl, name) ==
    IF name \in DOMAIN tmpl THEN [found |-> TRUE, text |-> stripFrontMatter(tmpl[name])]
    ELSE Undefined

\* the truth value the source gives a content: undefined and the empty
\* string are false
Truthy(content) == content.found /\ content.text # <<>>

\* "no directory" (undefined in the source)
NoDir == [defined |-> FALSE, at |-> <<>>]

Dir(at) == [defined |-> TRUE, at |-> at]

\* the workspace directory itself
WorkspaceDir == <<>>

\* path.join of a directory and a name
Join(dir, name) == Append(dir, name)

\* a relative persona path, resolved against the workspace directory
resolvePersonaDir(persona) ==
    IF persona # Unset THEN Dir(Join(WorkspaceDir, persona)) ELSE NoDir

resolveAgentHierarchyDir(tier, managerId, leadRole, mateRole) ==
    IF managerId = Unset THEN NoDir
    ELSE LET agentBase == <<"agents", managerId>>
         IN  CASE tier = "manager" -> Dir(agentBase)
               [] tier = "team-lead" ->
                    IF leadRole = Unset THEN NoDir
                    ELSE Dir(agentBase \o <<"teamleads", leadRole>>)
               [] tier = "teammate" ->
                    IF leadRole = Unset \/ mateRole = Unset THEN NoDir
                    ELSE Dir(agentBase \o <<"teamleads", leadRole, "teammates", mateRole>>)
               [] OTHER -> NoDir

\* the state of the workspace directory: its directories and its files
Disk(directories, files) == [dirs |-> directories, files |-> files]

\* fs.mkdir(dir, {recursive: true}): the directory and those above it
Mkdir(directories, dir) ==
    directories \cup {SubSeq(dir, 1, n) : n \in 1..Len(dir)}

\* a file written by hand: created, or its content replaced
WriteFile(files, filePath, content) ==
    [q \in DOMAIN files \cup {filePath} |-> IF q = filePath THEN content ELSE files[q]]

\* mutant of writeIfMissing: an existing file is overwritten
writeIfMissing_Overwrite(files, filePath, content) ==
    [q \in DOMAIN files \cup {filePath} |-> IF q = filePath THEN content ELSE files[q]]

\* writeIfMissing: fs.writeFile with flag "wx", which fails on an existing
\* path and leaves it as it is
writeIfMissing(files, filePath, content) ==
    IF filePath \in DOMAIN files THEN files
    ELSE [q \in DOMAIN files \cup {filePath} |-> IF q = filePath THEN content ELSE files[q]]

\* the writes of scaffoldDir from the i-th name on
RECURSIVE WriteNames(_, _, _, _, _)
WriteNames(files, tmpl, dir, names, i) ==
    IF i > Len(names) THEN files
    ELSE LET content == loadTemplateFile(tmpl, names[i])
             written == IF Truthy(content)
                        THEN writeIfMissing(files, Join(dir, names[i]), content.text)
                        ELSE files
         IN  WriteNames(written, tmpl, dir, names, i + 1)

\* scaffoldDir: make the directory, then write the tier file and the
\* standard files that the templates have and the directory lacks
scaffoldDir(disk, tmpl, dir, tierFile) ==
    Disk(Mkdir(disk.dirs, dir),
         WriteNames(disk.files, tmpl, dir, <<tierFile>> \o ALL_BOOTSTRAP_FILENAMES, 1))

\* the team templates of the configuration: a team lead and its teammates
TeamTemplates ==
    [squad |-> [teamLead |-> "lead", teammates |-> <<"dev">>],
     lab |-> [teamLead |-> "research", teammates |-> <<>>]]

\* the template ids a manager can be assigned, in the order of the record
TemplateIds == <<"squad", "lab">>

\* the manager whose hierarchy is scaffolded
ManagerId == "m1"

RECURSIVE ScaffoldMates(_, _, _, _, _)
ScaffoldMates(disk, tmpl, leadDir, mates, i) ==
    IF i > Len(mates) THEN disk
    ELSE ScaffoldMates(scaffoldDir(disk, tmpl, leadDir \o <<"teammates", mates[i]>>,
                                   TEAMMATE_FILENAME),
                       tmpl, leadDir, mates, i + 1)

RECURSIVE ScaffoldTemplates(_, _, _, _, _)
ScaffoldTemplates(disk, tmpl, managerDir, templates, i) ==
    IF i > Len(TemplateIds) THEN disk
    ELSE IF TemplateIds[i] \notin templates
         THEN ScaffoldTemplates(disk, tmpl, managerDir, templates, i + 1)
         ELSE LET template == TeamTemplates[TemplateIds[i]]
                  leadDir == managerDir \o <<"teamleads", template.teamLead>>
                  withLead == scaffoldDir(disk, tmpl, leadDir, TEAM_LEAD_FILENAME)
              IN  ScaffoldTemplates(
                      ScaffoldMates(withLead, tmpl, leadDir, template.teammates, 1),
                      tmpl, managerDir, templates, i + 1)

\* ensureManagerHierarchyStructure: the manager's directory, then per
\* template that of its team lead and those of its teammates
ensureManagerHierarchyStructure(disk, tmpl, managerId, templates) ==
    LET managerDir == Join(Join(WorkspaceDir, "agents"), managerId)
    IN  ScaffoldTemplates(scaffoldDir(disk, tmpl, managerDir, MANAGER_FILENAME),
                          tmpl, managerDir, templates, 1)

\* a bootstrap file as loadTierBootstrapFiles returns it; level tells where
\* resolvedPath points: 1 hierarchy, 2 persona, 3 workspace, 4 templates
BootstrapFile(name, level, content) ==
    [name |-> name, level |-> level, content |-> content.text]

\* the lookup of one file name: the hierarchy directory, then the persona
\* directory, then the workspace directory, then (for the tier file) the
\* reference templates, each tried while the content so far is false
Lookup(files, tmpl, hierarchyDir, personaDir, name, withTemplates) ==
    LET none == [content |-> Undefined, level |-> 0]
        one == IF hierarchyDir.defined
               THEN [content |-> readFileOrUndefined(files, Join(hierarchyDir.at, name)),
                     level |-> 1]
               ELSE none
        two == IF ~Truthy(one.content) /\ personaDir.defined
               THEN [content |-> readFileOrUndefined(files, Join(personaDir.at, name)),
                     level |-> 2]
               ELSE one
        three == IF ~Truthy(two.content)
                 THEN [content |-> readFileOrUndefined(files, Join(WorkspaceDir, name)),
                       level |-> 3]
                 ELSE two
    IN  IF withTemplates /\ ~Truthy(three.content)
        THEN [content |-> loadTemplateFile(tmpl, name), level |-> 4]
        ELSE three

\* the files of the i-th standard name on
RECURSIVE LoadStandard(_, _, _, _, _)
LoadStandard(files, tmpl, hierarchyDir, personaDir, i) ==
    IF i > Len(TIER_BOOTSTRAP_ORDER) THEN <<>>
    ELSE LET name == TIER_BOOTSTRAP_ORDER[i]
             got == Lookup(files, tmpl, hierarchyDir, personaDir, name, FALSE)
             rest == LoadStandard(files, tmpl, hierarchyDir, personaDir, i + 1)
         IN  IF Truthy(got.content)
             THEN <<BootstrapFile(name, got.level, got.content)>> \o rest
             ELSE rest

\* loadTierBootstrapFiles: the tier file first, then the standard files
loadTierBootstrapFiles(files, tmpl, params) ==
    LET tierFile == TIER_BOOTSTRAP_FILE(params.tier)
        personaDir == resolvePersonaDir(params.persona)
        hierarchyDir == resolveAgentHierarchyDir(params.tier, params.teamManagerId,
                                                 params.teamLeadRole, params.teamMateRole)
        got == Lookup(files, tmpl, hierarchyDir, personaDir, tierFile, TRUE)
        first == IF tierFile # Unset /\ Truthy(got.content)
                 THEN <<BootstrapFile(tierFile, got.level, got.content)>>
                 ELSE <<>>
    IN  first \o LoadStandard(files, tmpl, hierarchyDir, personaDir, 1)

\* the persona path of the team lead's member template
PersonaPath == "personas"

\* the calls of loadTierBootstrapFiles that are made
LoadParams ==
    [tier : {"team-lead", "operations"},
     persona : {Unset, PersonaPath},
     teamManagerId : {Unset, ManagerId},
     teamLeadRole : {"lead"},
     teamMateRole : {Unset}]

\* the contents a reference template can have: text, front matter alone,
\* front matter and text
TemplateContents ==
    {<<"default">>, <<FrontMatterFence, "title", FrontMatterFence>>,
     <<FrontMatterFence, "title", FrontMatterFence, BlankLine, "default">>}

\* the reference templates directories the build can ship: every file with
\* text, but for the team lead's file and SOUL.md, which vary or are absent
TemplateDirs ==
    LET fixed == {MANAGER_FILENAME, TEAMMATE_FILENAME} \cup
                 (Range(ALL_BOOTSTRAP_FILENAMES) \ {"SOUL.md"})
    IN  {[n \in fixed \cup {TEAM_LEAD_FILENAME} |->
            IF n = TEAM_LEAD_FILENAME THEN c ELSE <<"default">>] : c \in TemplateContents}
        \cup {[n \in fixed \cup {"SOUL.md"} |-> <<"default">>]}

\* the files a user writes by hand, and what they write into them
EditDirs ==
    {<<"agents", ManagerId, "teamleads", "lead">>, <<PersonaPath>>, WorkspaceDir}

EditNames == {TEAM_LEAD_FILENAME, "SOUL.md"}

EditContents == {<<>>, <<"edited">>}

NoScaffold == [made |-> FALSE, templates |-> {}, before |-> Disk({}, <<>>)]

NoLoad ==
    [made |-> FALSE,
     params |-> [tier |-> Unset, persona |-> Unset, teamManagerId |-> Unset,
                 teamLeadRole |-> Unset, teamMateRole |-> Unset],
     files |-> <<>>]

BootIdle ==
    /\ fsDirs = {}
    /\ fsFiles = <<>>
    /\ templateDir = <<>>
    /\ scaffoldCall = NoScaffold
    /\ loaded = NoLoad

BootCallIdle == ~scaffoldCall.made /\ ~loaded.made

\* a user creates or rewrites a file of the workspace by hand
UserWritesFile ==
    /\ BootCallIdle
    /\ \E dir \in EditDirs, name \in EditNames, content \in EditContents :
        /\ fsDirs' = Mkdir(fsDirs, dir)
        /\ fsFiles' = WriteFile(fsFiles, Join(dir, name), content)
        /\ UNCHANGED <<templateDir, scaffoldCall, loaded, beyondBoot>>

\* openclaw teams scaffold for the manager, with the templates assigned to it
EnsureManagerHierarchyStructure ==
    /\ BootCallIdle
    /\ \E templates \in SUBSET Range(TemplateIds) :
        LET after == ensureManagerHierarchyStructure(Disk(fsDirs, fsFiles), templateDir,
                                                     ManagerId, templates)
        IN  /\ fsDirs' = after.dirs
            /\ fsFiles' = after.files
            /\ scaffoldCall' = [made |-> TRUE, templates |-> templates,
                                before |-> Disk(fsDirs, fsFiles)]
            /\ UNCHANGED <<templateDir, loaded, beyondBoot>>

ScaffoldReturned ==
    /\ scaffoldCall.made
    /\ scaffoldCall' = NoScaffold
    /\ UNCHANGED <<fsDirs, fsFiles, templateDir, loaded, beyondBoot>>

\* a spawn loads the bootstrap files of the agent it starts
LoadTierBootstrapFiles ==
    /\ BootCallIdle
    /\ \E params \in LoadParams :
        /\ loaded' = [made |-> TRUE, params |-> params,
                      files |-> loadTierBootstrapFiles(fsFiles, templateDir, params)]
        /\ UNCHANGED <<fsDirs, fsFiles, templateDir, scaffoldCall, beyondBoot>>

LoadReturned ==
    /\ loaded.made
    /\ loaded' = NoLoad
    /\ UNCHANGED <<fsDirs, fsFiles, templateDir, scaffoldCall, beyondBoot>>

(* ----------------------------------------------------------------------- *)
(* Sequential specification of the task-list engine: one call at a time.   *)
(* A call that throws saves nothing: it leaves the state as it is.         *)
(* ----------------------------------------------------------------------- *)

\* createTeamRuntime: writeIfMissing(task-list.json, empty active list)
\* mutant of createTeamRuntime: task-list.json is written whether or not it
\* exists
createTeamRuntime_Overwrite(tl) == [status |-> "active", tasks |-> <<>>]

\* createTeamRuntime on a team directory: the empty active task list is
\* written with flag wx, which leaves an existing task-list.json as it is
createTeamRuntime(tl) ==
    IF tl = NoList THEN [status |-> "active", tasks |-> <<>>] ELSE tl

CreateTeamRuntime ==
    /\ taskList' = createTeamRuntime(taskList)
    /\ UNCHANGED <<failedOnce, created, beyondTasks>>

CreateTask ==
    \E deps \in DepChoices(MaxIdOf(taskList.tasks) + 1) :
        LET r == createTask(taskList, deps, Unset) IN
            /\ Len(taskList.tasks) < MaxTasks
            /\ taskList' = r.doc
            /\ created' = IF r.ok THEN Append(created, r.doc.tasks[Len(r.doc.tasks)].id)
                           ELSE created
            /\ UNCHANGED <<failedOnce, beyondTasks>>

ClaimTask ==
    \E id \in TaskIds, role \in SeqRoles :
        /\ taskList' = claimTask(taskList, id, role).doc
        /\ UNCHANGED <<failedOnce, created, beyondTasks>>

StartTask ==
    \E id \in TaskIds :
        /\ taskList' = startTask(taskList, id).doc
        /\ UNCHANGED <<failedOnce, created, beyondTasks>>

CompleteTask ==
    \E id \in TaskIds :
        /\ taskList' = completeTask(taskList, id).doc
        /\ UNCHANGED <<failedOnce, created, beyondTasks>>

FailTask ==
    \E id \in TaskIds :
        LET r == failTask(taskList, id) IN
            /\ taskList' = r.doc
            /\ failedOnce' = IF r.ok THEN failedOnce \cup {id} ELSE failedOnce
            /\ UNCHANGED <<created, beyondTasks>>

\* the values of TaskStatus
TaskStatuses == {"pending", "claimed", "in_progress", "completed", "failed"}

\* the partial updates a caller of updateTask passes, one call at a time:
\* nothing, any target status, a new assignee, a status and an assignee
SeqUpdateChoices ==
    {[status |-> st, assignedTo |-> Unset] : st \in TaskStatuses \cup {Unset}}
    \cup {[status |-> st, assignedTo |-> "qa"] : st \in {Unset, "completed"}}

UpdateTask ==
    \E id \in TaskIds, updates \in SeqUpdateChoices :
        /\ taskList' = updateTask(taskList, id, updates).doc
        /\ UNCHANGED <<failedOnce, created, beyondTasks>>

\* no concurrent caller is active
RaceIdle ==
    /\ pc = [p \in Procs |-> "idle"]
    /\ call = [p \in Procs |-> NoCall]
    /\ mem = [p \in Procs |-> NoList]
    /\ outcome = [p \in Procs |-> "none"]
    /\ base = NoList
    /\ round = 0

TaskInit ==
    /\ taskList = NoList
    /\ failedOnce = {}
    /\ created = <<>>
    /\ RaceIdle
    /\ TierIdle
    /\ SpawnIdle
    /\ ConfigIdle
    /\ AccessIdle
    /\ MemoryIdle
    /\ MailIdle
    /\ BootIdle

TaskNext ==
    \/ CreateTeamRuntime
    \/ CreateTask
    \/ ClaimTask
    \/ StartTask
    \/ CompleteTask
    \/ FailTask

SpecTasks == TaskInit /\ [][TaskNext]_vars

\* the most tasks a list holds when updateTask is among the calls
MaxOpsTasks == 2

\* the same with updateTask among the calls
TaskOpsNext ==
    \/ CreateTeamRuntime
    \/ (Len(taskList.tasks) < MaxOpsTasks /\ CreateTask)
    \/ ClaimTask
    \/ StartTask
    \/ CompleteTask
    \/ FailTask
    \/ UpdateTask

SpecTaskOps == TaskInit /\ [][TaskOpsNext]_vars

\* the most tasks a list holds when dependsOn may name any id, the ids of
\* tasks created later and the task's own id included
MaxCycleTasks == 3

\* createTask with dependsOn any set of ids up to MaxCycleTasks
CreateTaskAnyDeps ==
    /\ Len(taskList.tasks) < MaxCycleTasks
    /\ \E deps \in SUBSET (1..MaxCycleTasks) :
            LET r == createTask(taskList, deps, Unset) IN
                /\ taskList' = r.doc
                /\ created' = IF r.ok THEN Append(created, r.doc.tasks[Len(r.doc.tasks)].id)
                               ELSE created
                /\ UNCHANGED <<failedOnce, beyondTasks>>

\* createTask, claimTask, startTask and completeTask on lists whose tasks
\* may depend on themselves and on each other
CycleNext ==
    \/ CreateTeamRuntime
    \/ CreateTaskAnyDeps
    \/ ClaimTask
    \/ StartTask
    \/ CompleteTask

SpecCycle == TaskInit /\ [][CycleNext]_vars

\* the most tasks a list holds when every dependsOn id names an earlier task
MaxFlowTasks == 3

\* createTask with dependsOn a set of ids of tasks the list already holds:
\* the dependency graph stays acyclic and names existing tasks only
CreateTaskOnExisting ==
    /\ Len(taskList.tasks) < MaxFlowTasks
    /\ \E deps \in SUBSET Range(IdsOf(taskList.tasks)) :
            LET r == createTask(taskList, deps, Unset) IN
                /\ taskList' = r.doc
                /\ created' = IF r.ok THEN Append(created, r.doc.tasks[Len(r.doc.tasks)].id)
                               ELSE created
                /\ UNCHANGED <<failedOnce, beyondTasks>>

\* the calls of a team working through its list, one at a time: no failTask,
\* no updateTask
FlowNext ==
    \/ CreateTeamRuntime
    \/ CreateTaskOnExisting
    \/ ClaimTask
    \/ StartTask
    \/ CompleteTask

\* teammates keep claiming what is claimable and completing what they hold
SpecFlow ==
    /\ TaskInit
    /\ [][FlowNext]_vars
    /\ WF_vars(ClaimTask)
    /\ WF_vars(CompleteTask)

(* ----------------------------------------------------------------------- *)
(* Concurrent specification of the task-list engine: two callers, each     *)
(* operation a readFile (load), an in-memory mutation and a writeFile      *)
(* (save), with no lock between them; the awaits are the interleaving      *)
(* points. completeTask saves twice when every task is done.               *)
(* ----------------------------------------------------------------------- *)

\* the whole operation c run on document tl with nothing interleaved
Apply(tl, c) ==
    CASE c.op = "create"   -> createTask(tl, c.deps, Unset)
      [] c.op = "claim"    -> claimTask(tl, c.id, c.role)
      [] c.op = "start"    -> startTask(tl, c.id)
      [] c.op = "complete" -> completeTask(tl, c.id)
      [] c.op = "fail"     -> failTask(tl, c.id)
      [] c.op = "update"   -> updateTask(tl, c.id, c.upd)
      [] OTHER             -> Returned(tl, <<>>)

\* operation c up to its first saveTaskList: completeTask has only set the task
UpToFirstSave(tl, c) ==
    IF c.op = "complete" /\ completeTask(tl, c.id).ok
    THEN Returned(CompletedDoc(tl, FindIndex(tl.tasks, c.id)), <<>>)
    ELSE Apply(tl, c)

\* await loadTaskList(teamDir): the caller reads the document
Load(p) ==
    \E c \in RaceCalls :
        /\ pc[p] = "idle"
        /\ round < MaxRounds
        /\ c.op = "create" => Len(taskList.tasks) < MaxRaceTasks
        /\ pc' = [pc EXCEPT ![p] = "loaded"]
        /\ call' = [call EXCEPT ![p] = c]
        /\ mem' = [mem EXCEPT ![p] = taskList]
        /\ UNCHANGED <<taskList, outcome, base, round, beyondRace>>

\* the guards and the mutation on the in-memory copy, then await saveTaskList;
\* a guard that fails throws and nothing is written
Save(p) ==
    LET r == UpToFirstSave(mem[p], call[p]) IN
        /\ pc[p] = "loaded"
        /\ IF ~r.ok
           THEN /\ pc' = [pc EXCEPT ![p] = "done"]
                /\ outcome' = [outcome EXCEPT ![p] = "threw"]
                /\ UNCHANGED <<taskList, mem>>
           ELSE /\ taskList' = r.doc
                /\ mem' = [mem EXCEPT ![p] = r.doc]
                /\ IF call[p].op = "complete" /\ AllDone(r.doc)
                   THEN /\ pc' = [pc EXCEPT ![p] = "resave"]
                        /\ UNCHANGED outcome
                   ELSE /\ pc' = [pc EXCEPT ![p] = "done"]
                        /\ outcome' = [outcome EXCEPT ![p] = "ok"]
        /\ UNCHANGED <<call, base, round, beyondRace>>

\* completeTask's second save: taskList.status = "completed" on its own copy
Resave(p) ==
    /\ pc[p] = "resave"
    /\ taskList' = [mem[p] EXCEPT !.status = "completed"]
    /\ mem' = [mem EXCEPT ![p] = [mem[p] EXCEPT !.status = "completed"]]
    /\ pc' = [pc EXCEPT ![p] = "done"]
    /\ outcome' = [outcome EXCEPT ![p] = "ok"]
    /\ UNCHANGED <<call, base, round, beyondRace>>

\* both callers have returned; the next calls start from the document on disk
Settle ==
    /\ \A p \in Procs : pc[p] \in {"idle", "done"}
    /\ \E p \in Procs : pc[p] = "done"
    /\ pc' = [p \in Procs |-> "idle"]
    /\ call' = [p \in Procs |-> NoCall]
    /\ mem' = [p \in Procs |-> NoList]
    /\ outcome' = [p \in Procs |-> "none"]
    /\ base' = taskList
    /\ round' = round + 1
    /\ UNCHANGED <<taskList, beyondRace>>

RaceInit ==
    /\ taskList = [status |-> "active", tasks |-> <<>>]
    /\ base = [status |-> "active", tasks |-> <<>>]
    /\ failedOnce = {}
    /\ created = <<>>
    /\ pc = [p \in Procs |-> "idle"]
    /\ call = [p \in Procs |-> NoCall]
    /\ mem = [p \in Procs |-> NoList]
    /\ outcome = [p \in Procs |-> "none"]
    /\ round = 0
    /\ TierIdle
    /\ SpawnIdle
    /\ ConfigIdle
    /\ AccessIdle
    /\ MemoryIdle
    /\ MailIdle
    /\ BootIdle

RaceNext ==
    \/ \E p \in Procs : Load(p)
    \/ \E p \in Procs : Save(p)
    \/ \E p \in Procs : Resave(p)
    \/ Settle

SpecRace == RaceInit /\ [][RaceNext]_vars

(* ----------------------------------------------------------------------- *)
(* Specifications of the hierarchy model and of sessions_spawn             *)
(* ----------------------------------------------------------------------- *)

TaskIdle ==
    /\ taskList = NoList
    /\ failedOnce = {}
    /\ created = <<>>

TierInit ==
    /\ TierIdle
    /\ TaskIdle
    /\ RaceIdle
    /\ SpawnIdle
    /\ ConfigIdle
    /\ AccessIdle
    /\ MemoryIdle
    /\ MailIdle
    /\ BootIdle

TierNext ==
    \/ CallCanSpawnTier
    \/ StartChain
    \/ SpawnChild

SpecTier == TierInit /\ [][TierNext]_vars

\* the configuration and the hierarchy folders are whatever they are
SpawnInit ==
    /\ cfgTier \in [Agents -> SetTiers \cup {Unset}]
    /\ allowAgents \in {{}, {"*"}}
    /\ dirs \in DirChoices
    /\ spawnReq = NoRequest
    /\ spawnRes = Result("none", "")
    /\ spawnCalls = <<>>
    /\ spawnRegistered = FALSE
    /\ TaskIdle
    /\ RaceIdle
    /\ TierIdle
    /\ ConfigIdle
    /\ AccessIdle
    /\ MemoryIdle
    /\ MailIdle
    /\ BootIdle

SpawnNext ==
    \/ SessionsSpawn
    \/ SpawnReturned

SpecSpawn == SpawnInit /\ [][SpawnNext]_vars

ConfigInit ==
    /\ ConfigIdle
    /\ TaskIdle
    /\ RaceIdle
    /\ TierIdle
    /\ SpawnIdle
    /\ AccessIdle
    /\ MemoryIdle
    /\ MailIdle
    /\ BootIdle

ConfigNext ==
    \/ AddAgentEntry
    \/ ValidateConfigObject

SpecConfig == ConfigInit /\ [][ConfigNext]_vars

AccessInit ==
    /\ AccessIdle
    /\ MemoryIdle
    /\ MailIdle
    /\ BootIdle
    /\ ConfigIdle
    /\ TaskIdle
    /\ RaceIdle
    /\ TierIdle
    /\ SpawnIdle

AccessNext ==
    \/ CallResolveMemoryAccess
    \/ CallCanWriteCompanyMemory
    \/ CallCanReadCompanyMemory
    \/ CallCanWriteProjectShared
    \/ CallCanAccessTeamMemory
    \/ CallValidateMemoryAccess

SpecAccess == AccessInit /\ [][AccessNext]_vars

\* the project and the team directory may or may not have been created
MemoryInit ==
    /\ memFiles \in [project : {NoMemory(FALSE), NoMemory(TRUE)},
                     team : {NoMemory(FALSE), NoMemory(TRUE)}]
    /\ memTool = NoMemoryTool
    /\ gateExit = NoGate
    /\ MailIdle
    /\ BootIdle
    /\ AccessIdle
    /\ ConfigIdle
    /\ TaskIdle
    /\ RaceIdle
    /\ TierIdle
    /\ SpawnIdle

MemoryNext ==
    \/ TeamMemoryWrite
    \/ QualityGateHook
    \/ TeamMemoryRead
    \/ MemoryToolReturned

SpecMemory == MemoryInit /\ [][MemoryNext]_vars

MailInit ==
    /\ MailIdle
    /\ BootIdle
    /\ MemoryIdle
    /\ AccessIdle
    /\ ConfigIdle
    /\ TaskIdle
    /\ RaceIdle
    /\ TierIdle
    /\ SpawnIdle

MailNext ==
    \/ SendMessage
    \/ BroadcastMessage
    \/ TeamMessageRead
    \/ MessageReadReturned

SpecMail == MailInit /\ [][MailNext]_vars

\* the mailbox with team_message_list among its tools
ListNext ==
    \/ SendMessage
    \/ BroadcastMessage
    \/ TeamMessageRead
    \/ MessageReadTaken
    \/ TeamMessageList
    \/ MessageListReturned

SpecList == MailInit /\ [][ListNext]_vars

\* the bootstrap files of one workspace: an empty workspace directory and
\* one of the reference templates directories
BootInit ==
    /\ fsDirs = {}
    /\ fsFiles = <<>>
    /\ templateDir \in TemplateDirs
    /\ scaffoldCall = NoScaffold
    /\ loaded = NoLoad
    /\ MailIdle
    /\ MemoryIdle
    /\ AccessIdle
    /\ ConfigIdle
    /\ TaskIdle
    /\ RaceIdle
    /\ TierIdle
    /\ SpawnIdle

BootNext ==
    \/ UserWritesFile
    \/ EnsureManagerHierarchyStructure
    \/ ScaffoldReturned
    \/ LoadTierBootstrapFiles
    \/ LoadReturned

SpecBoot == BootInit /\ [][BootNext]_vars

(* ----------------------------------------------------------------------- *)
(* Properties of the task-list engine                                      *)
(* ----------------------------------------------------------------------- *)


\* every id in t.dependsOn is the id of a task of the list that is completed
DepsAllCompleted(tl, t) ==
    \A d \in t.dependsOn :
        \E i \in 1..Len(tl.tasks) :
            tl.tasks[i].id = d /\ tl.tasks[i].status = "completed"

\* C1: in every task-list state, for every task id t and role r, claimTask(t, r)
\* succeeds if and only if t exists, is pending and every id of t.dependsOn is
\* the id of a completed task of the list (a missing id or t's own id makes the
\* claim fail); on success t is claimed with assignedTo = r.
C1_ClaimSucceedsIff ==
    \A id \in TaskIds, r \in Roles :
        LET i == FindIndex(taskList.tasks, id)
            res == claimTask(taskList, id, r)
        IN  /\ res.ok <=> /\ i # 0
                          /\ taskList.tasks[i].status = "pending"
                          /\ DepsAllCompleted(taskList, taskList.tasks[i])
            /\ res.ok => /\ res.doc.tasks[i].status = "claimed"
                         /\ res.doc.tasks[i].assignedTo = r

\* C4: completed and failed are terminal: failTask on a completed or failed
\* task is rejected, and no claimTask/startTask/completeTask/failTask call
\* changes the status of a task that is completed or failed.
C4_TerminalStatuses ==
    [][\A i \in 1..Len(taskList.tasks) :
          taskList.tasks[i].status \in Terminal =>
              /\ ~failTask(taskList, taskList.tasks[i].id).ok
              /\ taskList'.tasks[i].status = taskList.tasks[i].status]_taskVars

\* C5: on a list holding at least one task, TaskList.status is completed if and
\* only if every task is completed or failed.
C5_ListStatusIffAllDone ==
    (taskList # NoList /\ Len(taskList.tasks) >= 1) =>
        (taskList.status = "completed" <=> AllDone(taskList))

\* once failTask(d) has succeeded, no pending task that lists d can be claimed
\* or is listed as claimable
C6_Blocked ==
    \A d \in failedOnce :
        \A j \in 1..Len(taskList.tasks) :
            (taskList.tasks[j].status = "pending" /\ d \in taskList.tasks[j].dependsOn)
            => /\ \A r \in Roles : ~claimTask(taskList, taskList.tasks[j].id, r).ok
               /\ taskList.tasks[j].id \notin Range(listClaimableTasks(taskList))

\* failTask(d), run in the current state, changes the status of no task
\* other than d
C6_NoCascade ==
    \A id \in TaskIds :
        LET res == failTask(taskList, id) IN
        res.ok =>
            /\ Len(res.doc.tasks) = Len(taskList.tasks)
            /\ \A j \in 1..Len(taskList.tasks) :
                   j # FindIndex(taskList.tasks, id) =>
                       res.doc.tasks[j].status = taskList.tasks[j].status

\* C6: after failTask(d) every pending task that lists d in dependsOn stays
\* unclaimable through every later create/claim/start/complete/fail call
\* (claimTask on it fails, listClaimableTasks omits it), and failTask(d) changes
\* the status of no task other than d.
C6_FailedDependencyBlocks == C6_Blocked /\ C6_NoCascade

\* a later call has run after failTask(d), and a pending task still lists d
C6_Witness ==
    \E d \in failedOnce :
        /\ \E j \in 1..Len(taskList.tasks) :
              taskList.tasks[j].status = "pending" /\ d \in taskList.tasks[j].dependsOn
        /\ \E k \in 1..Len(taskList.tasks) : taskList.tasks[k].status = "completed"

\* the tasks 1:[], 2:[1], 3:[1,2] of Scenario A
ScenarioA(tl) ==
    /\ Len(tl.tasks) = 3
    /\ IdsOf(tl.tasks) = <<1, 2, 3>>
    /\ tl.tasks[1].dependsOn = {}
    /\ tl.tasks[2].dependsOn = {1}
    /\ tl.tasks[3].dependsOn = {1, 2}

BothReturned == \A p \in Procs : pc[p] = "done"

\* C2: when two claimTask calls for the same pending task by different roles
\* run concurrently, at most one of them succeeds, and the persisted assignedTo
\* is the role of the call that succeeded.
C2_OneClaimWins ==
    LET i == FindIndex(base.tasks, call[1].id) IN
    (/\ BothReturned
     /\ call[1].op = "claim" /\ call[2].op = "claim"
     /\ call[1].id = call[2].id
     /\ call[1].role # call[2].role
     /\ i # 0
     /\ base.tasks[i].status = "pending")
    => /\ ~(outcome[1] = "ok" /\ outcome[2] = "ok")
       /\ \A p \in Procs :
              outcome[p] = "ok" => taskList.tasks[i].assignedTo = call[p].role

\* C3: for any interleaving of the load and save steps of two mutating
\* operations, the persisted task list is what running the two operations in
\* some serial order leaves.
C3_Serializable ==
    BothReturned =>
        taskList \in {Apply(Apply(base, call[1]).doc, call[2]).doc,
                      Apply(Apply(base, call[2]).doc, call[1]).doc}

(* ----------------------------------------------------------------------- *)
(* Properties of the hierarchy model and of sessions_spawn                 *)
(* ----------------------------------------------------------------------- *)

\* the tier pairs the hierarchy allows: requester, target
AllowedPairs ==
    {<<"general-manager", "operations">>, <<"general-manager", "manager">>,
     <<"manager", "team-lead">>, <<"team-lead", "teammate">>}

\* C8: canSpawnTier(a, b) is true exactly for the pairs (general-manager,
\* operations), (general-manager, manager), (manager, team-lead), (team-lead,
\* teammate) among the 25 pairs of set tiers, and is true whenever a or b is
\* unset.
C8_CanSpawnTable ==
    tierCall.made =>
        /\ (tierCall.requester \in SetTiers /\ tierCall.target \in SetTiers)
           => (tierCall.allowed <=> <<tierCall.requester, tierCall.target>> \in AllowedPairs)
        /\ (tierCall.requester = Unset \/ tierCall.target = Unset) => tierCall.allowed

\* canSpawnTier has answered yes for manager -> team-lead along a spawn chain
C8_Witness ==
    /\ tierCall.made
    /\ tierCall.requester = "manager"
    /\ tierCall.target = "team-lead"
    /\ tierCall.allowed
    /\ chain = <<"general-manager", "manager", "team-lead">>

\* the request's requester and target both have a configured tier and the
\* pair is not an allowed one
IllegalTierPair ==
    /\ spawnRes.status # "none"
    /\ cfgTier[Requester] # Unset
    /\ cfgTier[targetAgentId(spawnReq)] # Unset
    /\ <<cfgTier[Requester], cfgTier[targetAgentId(spawnReq)]>> \notin AllowedPairs

NoChildRun == "agent" \notin Range(spawnCalls) /\ ~spawnRegistered

ExpectedDirExists(req, fs) ==
    /\ req.teamManagerId # Unset
    /\ req.teamRole # Unset
    /\ IF req.teamTier = "team-lead"
       THEN <<req.teamManagerId, req.teamRole>> \in fs
       ELSE /\ req.teamLeadRole # Unset
            /\ <<req.teamManagerId, req.teamLeadRole, req.teamRole>> \in fs

\* C10: a request for tier team-lead or teammate is accepted only if the
\* expected directory exists (agents/<managerId>/teamleads/<role>/ for a team
\* lead, .../teamleads/<leadRole>/teammates/<role>/ for a teammate), for every
\* combination of request parameters.
C10_AcceptedOnlyIfDirExists ==
    (spawnRes.status = "accepted" /\ spawnReq.teamTier \in {"team-lead", "teammate"})
        => ExpectedDirExists(spawnReq, dirs)

\* C11: an agent whose configured tier is teammate or operations never
\* obtains an accepted result from sessions_spawn, for any target agent and
\* any request parameters (caller-supplied teamTier and requesterTeamTier
\* included).
C11_LeafTiersNeverAccepted ==
    cfgTier[Requester] \in {"teammate", "operations"}
        => spawnRes.status # "accepted"

\* C31: spawn authorization is free of side effects until it passes. An
\* execution of sessions_spawn that has issued a gateway call (sessions.patch
\* for the model or the thinking level, or agent) has passed the hierarchy
\* check and the containment check, and a request that ends forbidden has
\* caused no gateway call.
C31_NoCallBeforeAuthorized ==
    /\ spawnCalls # <<>> =>
            /\ ~HierarchyForbids(cfgTier[Requester], cfgTier[targetAgentId(spawnReq)])
            /\ ~ContainmentForbids(spawnReq, dirs)
    /\ spawnRes.status = "forbidden" => spawnCalls = <<>>

\* C32: from a sub-agent session, sessions_spawn goes past the sub-agent gate
\* only if the requester's own team tier is manager or team-lead; with any
\* other requesterTeamTier, or none, the result is forbidden whatever tier is
\* being spawned.
C32_SubagentGateOnRequesterTier ==
    (/\ spawnRes.status # "none"
     /\ spawnReq.session = "subagent"
     /\ spawnReq.requesterTeamTier \notin {"manager", "team-lead"})
        => spawnRes.status = "forbidden"

(* ----------------------------------------------------------------------- *)
(* Properties of configuration validation                                  *)
(* ----------------------------------------------------------------------- *)

\* the reportsTo relation of a list: child id, parent id
ParentPairs(agents) ==
    {<<agents[i].id, agents[i].reportsTo>> :
        i \in {j \in 1..Len(agents) : agents[j].reportsTo # Unset}}

IdsIn(agents) == {agents[i].id : i \in 1..Len(agents)}

\* ancestors reached from child through one or more reportsTo steps
Ancestors(agents, child) ==
    LET R == ParentPairs(agents)
        step(S) == S \cup {pr[2] : pr \in {q \in R : q[1] \in S}}
        RECURSIVE grow(_, _)
        grow(S, n) == IF n = 0 THEN S ELSE grow(step(S), n - 1)
    IN  grow({pr[2] : pr \in {q \in R : q[1] = child}}, Len(agents))

IsForest(agents) ==
    /\ \A pr \in ParentPairs(agents) : pr[2] \in IdsIn(agents)
    /\ \A pr \in ParentPairs(agents) : pr[2] # pr[1]
    /\ \A a \in IdsIn(agents) : a \notin Ancestors(agents, a)

TwoAgentCycle(agents) ==
    \E a, b \in IdsIn(agents) :
        /\ a # b
        /\ <<a, b>> \in ParentPairs(agents)
        /\ <<b, a>> \in ParentPairs(agents)

\* C12: validateConfigObject returns ok only if the reportsTo relation over
\* agents.list is a forest (every reportsTo names an existing agent, no agent
\* reports to itself, no reportsTo chain revisits an agent), and a two-agent
\* cycle yields an issue citing a circular reportsTo chain.
C12_OkOnlyIfForest ==
    /\ cfgResult.ok => IsForest(cfgList)
    /\ (cfgResult.called /\ TwoAgentCycle(cfgList)
            /\ Issue("earlier", Unset) \notin cfgResult.issues)
        => (~cfgResult.ok /\ \E i \in cfgResult.issues : i.kind = "circular")

\* Scenario E: a reports to b and b reports to a, and validation has failed
\* citing a circular chain
C12_Witness ==
    /\ Len(cfgList) = 2
    /\ cfgList[1].reportsTo = "b"
    /\ cfgList[2].reportsTo = "a"
    /\ ~cfgResult.ok
    /\ Issue("circular", "a") \in cfgResult.issues

\* C13: validateConfigObject returns ok only if every agent that declares a
\* tier and whose reportsTo parent also declares a tier forms with it one of
\* the pairs general-manager -> operations, general-manager -> manager,
\* manager -> team-lead, team-lead -> teammate; every other pair, whatever the
\* parent's tier, is reported as an issue.
C13_OkOnlyIfTierPairsAllowed ==
    cfgResult.ok =>
        \A i \in 1..Len(cfgList) :
            LET p == FindIndex(cfgList, cfgList[i].reportsTo) IN
                (cfgList[i].tier # Unset /\ p # 0 /\ cfgList[p].tier # Unset)
                    => <<cfgList[p].tier, cfgList[i].tier>> \in AllowedPairs

(* ----------------------------------------------------------------------- *)
(* Properties of the memory access functions and of the memory tools       *)
(* ----------------------------------------------------------------------- *)

\* the access matrix: company, project-shared, team (own), team (other)
Matrix(tier, scope, own) ==
    CASE scope = "company" ->
            (CASE tier \in {"general-manager", "operations"} -> "write"
               [] tier = "manager" -> "read"
               [] tier \in {"team-lead", "teammate"} -> "none")
      [] scope = "project-shared" ->
            (CASE tier = "operations" -> "read"
               [] tier \in SetTiers \ {"operations"} -> "write")
      [] scope = "team" ->
            (CASE tier \in {"general-manager", "operations", "manager"} -> "read"
               [] tier \in {"team-lead", "teammate"} ->
                     IF own = "other" THEN "none" ELSE "write")

\* the scope of the matrix a tool memory tier maps to
ScopeOf(toolTier) ==
    CASE toolTier = "workspace" -> "company"
      [] toolTier = "project" -> "project-shared"
      [] toolTier = "team" -> "team"

\* whether an access level grants an operation
Grants(level, op) == IF op = "write" THEN level = "write" ELSE level # "none"

C15_NoTierReadOnly ==
    LET c == accessCall IN
    (c.fn # "none" /\ c.tier = Unset /\ c.scope \in MemoryTiers \cup ToolMemoryTiers) =>
        CASE c.fn \in {"resolveMemoryAccess", "canAccessTeamMemory"} -> c.level = "read"
          [] OTHER -> (c.allowed <=> c.op = "read")

\* C16: a tier outside the five known tiers, or a memory scope outside the
\* known scopes, never receives read or write access from any memory access
\* function: the result is none / not allowed.
C16_UnknownRejected ==
    LET c == accessCall IN
    (c.fn # "none"
        /\ \/ c.tier \notin SetTiers \cup {Unset}
           \/ c.scope \notin MemoryTiers \cup ToolMemoryTiers) =>
        CASE c.fn \in {"resolveMemoryAccess", "canAccessTeamMemory"} -> c.level = "none"
          [] OTHER -> ~c.allowed

C34_LeafTiersWriteTeamOnly ==
    LET c == accessCall IN
    (c.fn # "none" /\ c.tier \in {"team-lead", "teammate"}
        /\ c.scope \in {"project", "project-shared", "workspace", "company"}) =>
        CASE c.fn = "resolveMemoryAccess" -> c.level # "write"
          [] c.fn = "canAccessTeamMemory" -> TRUE
          [] OTHER -> (c.op = "write" => ~c.allowed)

\* C17: team_memory_write and team_memory_read perform the write or read only
\* when validateMemoryAccess allows that operation for the calling agent's
\* tier, the memory tier and the own-team flag; a denied access leaves the
\* memory files unchanged and returns a not-allowed result.
C17_MemoryToolsGated ==
    [][\A tool \in {"read", "write"} :
        (memTool'.tool = tool /\ memTool.tool = "none"
            /\ ~validateMemoryAccess(memTool'.req.callerTier, memTool'.req.memoryTier,
                                     tool, memTool'.req.own).allowed)
        => (~memTool'.done /\ memFiles' = memFiles /\ memTool'.res.status # "ok")]_memoryVars

(* ----------------------------------------------------------------------- *)
(* Properties of the mailbox                                               *)
(* ----------------------------------------------------------------------- *)

\* the ids a read for role is to return from a mailbox
UnreadFor(box, role) ==
    {i \in 1..Len(box) :
        /\ ~box[i].read
        /\ \/ box[i].kind = "direct" /\ box[i].to \in {role, "*"}
           \/ box[i].kind = "broadcast" /\ box[i].from # role}

\* C18: readUnread(role) returns exactly the unread direct messages whose to
\* is role or "*" together with the unread broadcasts whose from is not role,
\* ordered by timestamp ascending; a broadcast is never returned to its own
\* sender and a direct message addressed to another role is never returned.
C18_ReadUnreadExact ==
    [][(~lastRead.made /\ lastRead'.made) =>
        LET ids == lastRead'.ids
            role == lastRead'.role
        IN  /\ Range(ids) = UnreadFor(mailbox, role)
            /\ Len(ids) = Cardinality(UnreadFor(mailbox, role))
            /\ \A i, j \in DOMAIN ids : i < j => mailbox[ids[i]].ts <= mailbox[ids[j]].ts
            /\ \A i \in DOMAIN ids :
                /\ mailbox[ids[i]].kind = "broadcast" => mailbox[ids[i]].from # role
                /\ (mailbox[ids[i]].kind = "direct" /\ mailbox[ids[i]].to \in TeamRoles)
                        => mailbox[ids[i]].to = role]_mailVars

\* a read has returned to the researcher a direct message addressed to it,
\* while the researcher's own unread broadcast stays in the mailbox
C18_Witness ==
    /\ lastRead.made
    /\ lastRead.role = "researcher"
    /\ Len(lastRead.ids) = 1
    /\ mailbox[lastRead.ids[1]].kind = "direct"
    /\ mailbox[lastRead.ids[1]].to = "researcher"
    /\ \E i \in 1..Len(mailbox) :
            /\ mailbox[i].kind = "broadcast"
            /\ mailbox[i].from = "researcher"
            /\ ~mailbox[i].read

C20_BroadcastReachesAll ==
    lastRead.made =>
        \A i \in 1..Len(mailbox) :
            (/\ mailbox[i].kind = "broadcast"
             /\ mailbox[i].from # lastRead.role
             /\ lastRead.role \notin polled[i])
                => i \in Range(lastRead.ids)

(* ----------------------------------------------------------------------- *)
(* Properties of the task-list engine with updateTask among the calls      *)
(* ----------------------------------------------------------------------- *)

\* the step of a createTask call that returned
CreateStep == Len(created') = Len(created) + 1

\* C24: task ids are unique per list. In every state the tasks of the list
\* have pairwise distinct ids and no two successful createTask calls have
\* returned the same id; a successful createTask appends one task, with id
\* the largest id of the list before it plus one (1 for an empty list) and
\* status pending, returns that id and leaves the tasks before it alone.
C24_TaskIdsUnique ==
    /\ [](/\ \A i, j \in 1..Len(taskList.tasks) :
                i # j => taskList.tasks[i].id # taskList.tasks[j].id
          /\ \A i, j \in 1..Len(created) : i # j => created[i] # created[j])
    /\ [][CreateStep =>
            LET n == Len(taskList.tasks)
                largest == IF n = 0 THEN 0
                           ELSE CHOOSE m \in Range(IdsOf(taskList.tasks)) :
                                    \A k \in Range(IdsOf(taskList.tasks)) : k <= m
            IN  /\ Len(taskList'.tasks) = n + 1
                /\ SubSeq(taskList'.tasks, 1, n) = taskList.tasks
                /\ taskList'.tasks[n + 1].id = largest + 1
                /\ taskList'.tasks[n + 1].status = "pending"
                /\ created'[Len(created')] = largest + 1]_vars

\* two tasks created with calls of other operations in between: the first
\* was completed and set back by updateTask before the second was created
C24_Witness ==
    /\ created = <<1, 2>>
    /\ Len(taskList.tasks) = 2
    /\ taskList.tasks[1].status = "pending"
    /\ taskList.tasks[1].completedAt
    /\ taskList.tasks[2].status = "failed"
    /\ taskList.status = "completed"

\* the pending tasks of a document with a dependency id that no task of
\* the document carries
PendingOnMissing(tl) ==
    {i \in 1..Len(tl.tasks) :
        /\ tl.tasks[i].status = "pending"
        /\ \E d \in tl.tasks[i].dependsOn : d \notin Range(IdsOf(tl.tasks))}

\* C25: a pending task whose dependsOn holds an id that no task in the list
\* carries is not among the tasks listClaimableTasks returns, and is not in
\* the newlyClaimable of any completeTask call made in that state.
C25_MissingDependencyBlocks ==
    /\ \A i \in PendingOnMissing(taskList) :
            taskList.tasks[i].id \notin Range(listClaimableTasks(taskList))
    /\ \A id \in TaskIds :
            LET r == completeTask(taskList, id)
            IN  r.ok => \A i \in PendingOnMissing(r.doc) :
                            r.doc.tasks[i].id \notin Range(r.newly)

\* the status changes of the documented lifecycle
LifecycleSteps ==
    {<<"pending", "claimed">>, <<"claimed", "in_progress">>, <<"claimed", "completed">>,
     <<"in_progress", "completed">>, <<"claimed", "failed">>, <<"in_progress", "failed">>}

\* C27: a task enters status failed only from claimed or in_progress.
\* failTask on a pending task is rejected, and every status change that a
\* claimTask, startTask, completeTask or failTask call makes to a task is
\* one of pending to claimed, claimed to in_progress, claimed to completed,
\* in_progress to completed, claimed to failed, in_progress to failed.
C27_OnlyLifecycleSteps ==
    /\ [](\A i \in 1..Len(taskList.tasks) :
            taskList.tasks[i].status = "pending"
                => ~failTask(taskList, taskList.tasks[i].id).ok)
    /\ [][\A i \in 1..Len(taskList.tasks) :
            \/ taskList'.tasks[i].status = taskList.tasks[i].status
            \/ <<taskList.tasks[i].status, taskList'.tasks[i].status>> \in LifecycleSteps]_vars

\* C28: TaskList.status completed is terminal. Once the status of the task
\* list is completed, no createTask, claimTask, startTask, completeTask,
\* failTask or updateTask call sets it back to active.
C28_ListCompletedIsTerminal ==
    [][taskList.status = "completed" => taskList'.status = "completed"]_vars

\* a completed list on which work goes on: the task created after the list
\* was completed has been claimed and is in progress
C28_Witness ==
    /\ taskList.status = "completed"
    /\ Len(taskList.tasks) = 2
    /\ taskList.tasks[1].status = "completed"
    /\ taskList.tasks[2].status = "in_progress"
    /\ taskList.tasks[2].assignedTo = "dev"

\* C29: listClaimableTasks agrees with claimTask in every state. It returns,
\* in list order, exactly the tasks for which claimTask would succeed for
\* any role, and these are the pending tasks whose every dependency is a
\* completed task of the list.
C29_ListAgreesWithClaim ==
    taskList # NoList =>
        /\ listClaimableTasks(taskList)
              = IdsOf(SelectSeq(taskList.tasks,
                                LAMBDA t : \A r \in Roles : claimTask(taskList, t.id, r).ok))
        /\ listClaimableTasks(taskList)
              = IdsOf(SelectSeq(taskList.tasks,
                                LAMBDA t : t.status = "pending" /\ DepsAllCompleted(taskList, t)))

\* the status of the task with an id in a list, Unset if there is none
StatusOf(tl, id) ==
    IF tl = NoList \/ FindIndex(tl.tasks, id) = 0 THEN Unset
    ELSE tl.tasks[FindIndex(tl.tasks, id)].status

\* C35: a rejected transition leaves the persisted state unchanged: when
\* claimTask, startTask or completeTask fails (task missing, status not the
\* required one, unmet dependencies) the task-list document is the one before
\* the call; startTask succeeds only from claimed, completeTask only from
\* claimed or in_progress, and the error of a status rejection names the
\* status the task has.
C35_RejectedLeavesDocument ==
    \A id \in TaskIds :
        LET st == StatusOf(taskList, id)
            c == claimTask(taskList, id, "dev")
            s == startTask(taskList, id)
            d == completeTask(taskList, id)
        IN  /\ \A r \in {c, s, d} : ~r.ok => r.doc = taskList
            /\ s.ok <=> st = "claimed"
            /\ d.ok <=> st \in {"claimed", "in_progress"}
            /\ c.ok => st = "pending"
            /\ (st # Unset /\ ~s.ok) => s.err = "not-claimed:" \o st
            /\ (st # Unset /\ ~d.ok) => d.err = "not-completable:" \o st
            /\ (st \notin {Unset, "pending"}) => c.err = "not-pending:" \o st

\* a list with a task in progress, which startTask rejects, a pending task
\* with an unmet dependency, which claimTask and completeTask reject, and an
\* id that names no task
C35_Witness ==
    /\ taskList # NoList
    /\ \E id \in TaskIds :
            /\ StatusOf(taskList, id) = "in_progress"
            /\ startTask(taskList, id).err = "not-claimed:in_progress"
    /\ \E id \in TaskIds :
            /\ StatusOf(taskList, id) = "pending"
            /\ claimTask(taskList, id, "dev").err = "unmet-deps"
            /\ completeTask(taskList, id).err = "not-completable:pending"
    /\ \E id \in TaskIds : startTask(taskList, id).err = "not-found"

ExistingDeps(tl, id) ==
    IF FindIndex(tl.tasks, id) = 0 THEN {}
    ELSE {d \in tl.tasks[FindIndex(tl.tasks, id)].dependsOn : FindIndex(tl.tasks, d) # 0}

\* the ids reached from a set of ids along at most n dependsOn references
RECURSIVE DependsOnWithin(_, _, _)
DependsOnWithin(tl, ids, n) ==
    IF n = 0 THEN ids
    ELSE DependsOnWithin(tl, ids \cup UNION {ExistingDeps(tl, d) : d \in ids}, n - 1)

\* the task depends on itself, or lies on a cycle of dependsOn references
\* among the tasks of the list
OnCycle(tl, id) == id \in DependsOnWithin(tl, ExistingDeps(tl, id), Len(tl.tasks))

\* C37: a task that depends on itself, or that lies on a cycle of dependsOn
\* references among existing tasks, is pending and stays pending through
\* every createTask, claimTask, startTask and completeTask call, claimTask on
\* it fails, and listClaimableTasks never reports it.
C37_CycleDeadlocked ==
    \A i \in 1..Len(taskList.tasks) :
        LET t == taskList.tasks[i] IN
        OnCycle(taskList, t.id) =>
            /\ t.status = "pending"
            /\ ~claimTask(taskList, t.id, "dev").ok
            /\ t.id \notin Range(listClaimableTasks(taskList))

\* every task of the list is completed and so is the list
AllCompleted ==
    /\ \A i \in 1..Len(taskList.tasks) : taskList.tasks[i].status = "completed"
    /\ taskList.status = "completed"

C40_RespawnKeepsTaskList ==
    taskList # NoList =>
        /\ createTeamRuntime(taskList).tasks = taskList.tasks
        /\ createTeamRuntime(taskList).status = taskList.status

\* createTeamRuntime is called on a list that holds a completed and a
\* claimed task and keeps both
C40_Witness ==
    /\ \E i \in 1..Len(taskList.tasks) : taskList.tasks[i].status = "completed"
    /\ \E i \in 1..Len(taskList.tasks) : taskList.tasks[i].status = "claimed"
    /\ Len(createTeamRuntime(taskList).tasks) = Len(taskList.tasks)
    /\ Len(taskList.tasks) >= 2

\* C30: updateTask(t, partial) is a field write without a guard. For every
\* task of the list, whatever its status, and every partial update, the
\* call succeeds; the status and the assignee of the task are those of the
\* partial where it names them and the old ones where it does not; every
\* other task, the task's id, dependsOn, completedAt and failedReason and
\* TaskList.status are as before, also when the update leaves every task
\* completed or failed.
C30_UpdateIsFieldWrite ==
    taskList # NoList =>
        \A i \in 1..Len(taskList.tasks), updates \in SeqUpdateChoices :
            LET old == taskList.tasks[i]
                r == updateTask(taskList, old.id, updates)
                new == r.doc.tasks[i]
            IN  /\ r.ok
                /\ Len(r.doc.tasks) = Len(taskList.tasks)
                /\ \A j \in 1..Len(taskList.tasks) :
                        j # i => r.doc.tasks[j] = taskList.tasks[j]
                /\ new.status = (IF updates.status # Unset THEN updates.status
                                 ELSE old.status)
                /\ new.assignedTo = (IF updates.assignedTo # Unset THEN updates.assignedTo
                                     ELSE old.assignedTo)
                /\ new.id = old.id
                /\ new.dependsOn = old.dependsOn
                /\ new.completedAt = old.completedAt
                /\ new.failedReason = old.failedReason
                /\ r.doc.status = taskList.status

\* updateTask has acted: the list is active although both its tasks are
\* completed or failed, one of them completed with a new assignee and
\* without a completion time
C30_Witness ==
    /\ taskList.status = "active"
    /\ Len(taskList.tasks) = 2
    /\ AllDone(taskList)
    /\ \E i \in 1..2 :
        /\ taskList.tasks[i].status = "completed"
        /\ taskList.tasks[i].assignedTo = "qa"
        /\ ~taskList.tasks[i].completedAt

(* ----------------------------------------------------------------------- *)
(* Properties of the tier order                                            *)
(* ----------------------------------------------------------------------- *)

\* C26: canSpawnTier(a, b) with both tiers set is true only if b ranks
\* strictly below a in the tier order; canSpawnTier(t, t) is false for every
\* tier t; and a chain of tier-legal spawns has at most three links.
C26_SpawnsOnlyDownward ==
    /\ (tierCall.made /\ tierCall.requester \in SetTiers /\ tierCall.target \in SetTiers)
        => /\ tierCall.allowed =>
                IndexOf(TIER_ORDER, tierCall.requester) < IndexOf(TIER_ORDER, tierCall.target)
           /\ tierCall.requester = tierCall.target => ~tierCall.allowed
    /\ Len(chain) - 1 <= 3
    /\ \A i \in 1..(Len(chain) - 1) :
            IndexOf(TIER_ORDER, chain[i]) < IndexOf(TIER_ORDER, chain[i + 1])

\* the chain of three links, its last spawn just allowed
C26_Witness ==
    /\ chain = <<"general-manager", "manager", "team-lead", "teammate">>
    /\ tierCall.made
    /\ tierCall.requester = "team-lead"
    /\ tierCall.target = "teammate"
    /\ tierCall.allowed

(* ----------------------------------------------------------------------- *)
(* Properties of team_message_list                                         *)
(* ----------------------------------------------------------------------- *)

\* the step on which a team_message_list call is made
ListStep == ~listed.made /\ listed'.made

\* C21: listRecent(limit) is a peek. It returns at most limit messages, as
\* many as the two stores hold together if that is fewer, each once, newest
\* timestamp first, no omitted message newer than a returned one; it leaves
\* every read flag and the whole mailbox as they were, so that readUnread
\* returns to every role what it would have returned without the peek.
C21_ListRecentIsPeek ==
    [][ListStep =>
        LET ids == listed'.ids
            limit == listed'.limit
        IN  /\ Len(ids) <= limit
            /\ Len(ids) = (IF Len(mailbox) < limit THEN Len(mailbox) ELSE limit)
            /\ \A i \in DOMAIN ids : ids[i] \in 1..Len(mailbox)
            /\ \A i, j \in DOMAIN ids : i < j =>
                    /\ ids[i] # ids[j]
                    /\ mailbox[ids[i]].ts >= mailbox[ids[j]].ts
            /\ \A k \in 1..Len(mailbox) : k \notin Range(ids) =>
                    \A i \in DOMAIN ids : mailbox[ids[i]].ts >= mailbox[k].ts
            /\ mailbox' = mailbox
            /\ \A role \in TeamRoles :
                    readMessages(mailbox', role) = readMessages(mailbox, role)]_vars

\* a listing cut to its limit: of a read direct message and a newer unread
\* broadcast it holds the broadcast alone
C21_Witness ==
    /\ listed.made
    /\ listed.limit = 1
    /\ Len(listed.ids) = 1
    /\ \E i, j \in 1..Len(mailbox) :
        /\ mailbox[i].kind = "direct"
        /\ mailbox[i].read
        /\ mailbox[j].kind = "broadcast"
        /\ ~mailbox[j].read
        /\ mailbox[j].ts > mailbox[i].ts
        /\ listed.ids = <<j>>

(* ----------------------------------------------------------------------- *)
(* Properties of the bootstrap files                                       *)
(* ----------------------------------------------------------------------- *)

\* the step on which ensureManagerHierarchyStructure runs
ScaffoldStep == ~scaffoldCall.made /\ scaffoldCall'.made

\* C22: scaffolding is write-once and idempotent. A run leaves every file
\* that existed before it with the content it had; a second run for the
\* same manager and templates on what the first left gives the same
\* directories, files and contents.
C22_ScaffoldWriteOnceIdempotent ==
    [][ScaffoldStep =>
        /\ \A filePath \in DOMAIN fsFiles :
                filePath \in DOMAIN fsFiles' /\ fsFiles'[filePath] = fsFiles[filePath]
        /\ ensureManagerHierarchyStructure(Disk(fsDirs', fsFiles'), templateDir, ManagerId,
                                           scaffoldCall'.templates)
                = Disk(fsDirs', fsFiles')]_vars

\* a second run with both templates that found a file edited by hand and
\* the files of the first run, and left all of them as they were
C22_Witness ==
    /\ scaffoldCall.made
    /\ scaffoldCall.templates = {"squad", "lab"}
    /\ scaffoldCall.before = Disk(fsDirs, fsFiles)
    /\ <<"agents", ManagerId, "teamleads", "lead", "SOUL.md">> \in DOMAIN fsFiles
    /\ fsFiles[<<"agents", ManagerId, "teamleads", "lead", "SOUL.md">>] = <<"edited">>
    /\ <<"agents", ManagerId, "teamleads", "lead", "AGENTS.md">> \in DOMAIN fsFiles
    /\ <<"agents", ManagerId, "teamleads", "lead", "teammates", "dev", TEAMMATE_FILENAME>>
            \in DOMAIN fsFiles

\* the file of that name at a precedence level of a call: 1 the hierarchy
\* directory, 2 the persona directory, 3 the workspace directory, 4 the
\* reference templates (tier file only)
FileAtLevel(params, name, level) ==
    LET hierarchyDir == resolveAgentHierarchyDir(params.tier, params.teamManagerId,
                                                 params.teamLeadRole, params.teamMateRole)
        personaDir == resolvePersonaDir(params.persona)
    IN  CASE level = 1 ->
               IF hierarchyDir.defined
               THEN readFileOrUndefined(fsFiles, Join(hierarchyDir.at, name))
               ELSE Undefined
          [] level = 2 ->
               IF personaDir.defined
               THEN readFileOrUndefined(fsFiles, Join(personaDir.at, name))
               ELSE Undefined
          [] level = 3 -> readFileOrUndefined(fsFiles, Join(WorkspaceDir, name))
          [] OTHER ->
               IF name = TIER_BOOTSTRAP_FILE(params.tier)
               THEN loadTemplateFile(templateDir, name)
               ELSE Undefined

\* the levels at which the file exists
LevelsWith(params, name) == {level \in 1..4 : FileAtLevel(params, name, level).found}

\* the bootstrap file names of a call
BootstrapNames(params) ==
    Range(TIER_BOOTSTRAP_ORDER) \cup
    (IF TIER_BOOTSTRAP_FILE(params.tier) = Unset THEN {}
     ELSE {TIER_BOOTSTRAP_FILE(params.tier)})

\* C23: for every bootstrap file name, loadTierBootstrapFiles resolves the
\* file from the highest-precedence level at which the file exists (nested
\* hierarchy directory, persona directory, workspace root, built-in defaults
\* for the tier file only): what it returns under that name comes from that
\* level, with the content the file has there, and a file with content is
\* returned; a file that exists at no level is omitted.
C23_ResolvedFromHighestLevel ==
    loaded.made =>
        \A name \in BootstrapNames(loaded.params) :
            LET levels == LevelsWith(loaded.params, name)
                entries == {i \in DOMAIN loaded.files : loaded.files[i].name = name}
            IN  IF levels = {} THEN entries = {}
                ELSE LET top == CHOOSE l \in levels : \A m \in levels : l <= m
                         file == FileAtLevel(loaded.params, name, top)
                     IN  /\ \A i \in entries :
                                /\ loaded.files[i].level = top
                                /\ loaded.files[i].content = file.text
                         /\ file.text # <<>> => entries # {}

(* ----------------------------------------------------------------------- *)
(* Properties of sessions_spawn and the hierarchy directories              *)
(* ----------------------------------------------------------------------- *)

\* the path hierarchyPathExists builds and stats: agents/<managerId>, then
\* teamleads/<leadRole> and teammates/<mateRole> where given
hierarchyTarget(managerId, leadRole, mateRole) ==
    IF mateRole # Unset /\ leadRole = Unset THEN NoDir
    ELSE Dir(<<"agents", managerId>>
                \o (IF leadRole # Unset THEN <<"teamleads", leadRole>> ELSE <<>>)
                \o (IF mateRole # Unset THEN <<"teammates", mateRole>> ELSE <<>>))

\* the directory the containment check of sessions_spawn verifies for a
\* request, NoDir where it verifies none
containmentTarget(req) ==
    IF req.teamManagerId = Unset \/ req.teamTier = Unset THEN NoDir
    ELSE IF req.teamTier = "team-lead" /\ req.teamRole # Unset
    THEN hierarchyTarget(req.teamManagerId, req.teamRole, Unset)
    ELSE IF req.teamTier = "teammate" /\ req.teamLeadRole # Unset /\ req.teamRole # Unset
    THEN hierarchyTarget(req.teamManagerId, req.teamLeadRole, req.teamRole)
    ELSE NoDir

\* the nested hierarchy directory loadTierBootstrapFiles resolves with the
\* parameters sessions_spawn passes it: teamManagerId, teamLeadRole, and
\* teamRole as teamMateRole
bootstrapHierarchyDir(req) ==
    IF req.teamTier = Unset THEN NoDir
    ELSE resolveAgentHierarchyDir(req.teamTier, req.teamManagerId, req.teamLeadRole,
                                  req.teamRole)

\* C39: for every accepted team-lead or teammate spawn, the nested hierarchy
\* directory from which sessions_spawn loads the child's bootstrap files is
\* the directory whose existence the containment check verified for that
\* request.
C39_BootstrapDirIsVerifiedDir ==
    (spawnRes.status = "accepted" /\ spawnReq.teamTier \in {"team-lead", "teammate"}) =>
        bootstrapHierarchyDir(spawnReq) = containmentTarget(spawnReq)

====
